---- MODULE Spec2Model ----
(***************************************************************************)
(* Account lifecycle of django-userena: the views of userena/views and the *)
(* store operations they call (UserenaSignup.objects, the forms, the       *)
(* authentication backend).  One browser session is followed; each view    *)
(* is one action.  `result' holds the response of the last request and     *)
(* `trace' the ordered effects (gate, store reads and writes, signals,     *)
(* session calls) of the last request.                                     *)
(***************************************************************************)
EXTENDS Integers, Sequences, FiniteSets, TLC

\* ---------------------------------------------------------------- bounds
MaxTokens == 3
MaxTime == 2

\* ------------------------------------------------------- input alphabets
Usernames == {"alice", "bob"}
Emails == {"a@x", "b@x", "n@x"}
Passwords == {"pw", "pw2"}
ProfileValues == {"bio0", "bio1"}
Anonymous == "anonymous"
NoToken == 0
\* keys a request may carry: every token that can be issued, and one that never is
Keys == 1..(MaxTokens + 1)
NoUrl == <<>>
\* signup forms submitted: two distinct accounts, and one that reuses an email
SignupInputs == {<<"alice", "a@x">>, <<"bob", "b@x">>, <<"bob", "a@x">>}

\* ------------------------------------------------------- configuration
ActivationWindow == 1
REMEMBER_ME_DAYS == 30
ExpiryUnset == -1

VARIABLES
    users,      \* username -> [exists, is_active, email, password, profile]
    signup,     \* username -> UserenaSignup row
    issued,     \* number of tokens minted so far
    now,        \* clock
    settings,   \* userena_settings
    elevated,   \* <<actor, perm, target>>: object permissions granted by an administrator
    session,    \* request.session of the followed browser
    result,     \* response of the last request
    trace,      \* effects of the last request, in order
    reqs        \* requests in flight when handlers interleave: request -> locals

vars == <<users, signup, issued, now, settings, elevated, session, result, trace, reqs>>

NoUserRow == [exists |-> FALSE, is_active |-> FALSE, email |-> "", password |-> "",
              profile |-> "", privacy |-> "private", is_staff |-> FALSE]
NoSignupRow == [activation_key |-> NoToken, issued_at |-> 0,
                email_unconfirmed |-> "", email_confirmation_key |-> NoToken]
NoSession == [user |-> Anonymous, expiry |-> ExpiryUnset]
Requests == {1, 2}
IdleRequest == [pc |-> "idle", op |-> "none", key |-> NoToken, user |-> Anonymous,
                outcome |-> "none"]

Response(op, outcome, user, key, url) ==
    [op |-> op, outcome |-> outcome, user |-> user, key |-> key, url |-> url]

\* ------------------------------------------------------------ TokenIssuer
issue == issued + 1

is_expired(issued_at) == now - issued_at > ActivationWindow

\* ----------------------------------------------------------- AccountStore
ByActivationKey(key) ==
    {u \in Usernames : users[u].exists /\ key # NoToken
                        /\ signup[u].activation_key = key}

ByConfirmationKey(key) ==
    {u \in Usernames : users[u].exists /\ key # NoToken
                        /\ signup[u].email_confirmation_key = key}

EmailOf(u) == IF u \in Usernames THEN users[u].email ELSE ""

UnconfirmedOf(u) == IF u \in Usernames THEN signup[u].email_unconfirmed ELSE ""

EmailInUse(email) == \E u \in Usernames : users[u].exists /\ users[u].email = email

\* "DoesNotExist" | "expired" | "fresh"
check_expired_activation(key) ==
    IF ByActivationKey(key) = {} THEN "DoesNotExist"
    ELSE LET u == CHOOSE x \in ByActivationKey(key) : TRUE
         IN  IF is_expired(signup[u].issued_at) THEN "expired" ELSE "fresh"

\* the user activated by the key, or Anonymous when no record matches
activate_user(key) ==
    IF ByActivationKey(key) = {} THEN Anonymous
    ELSE CHOOSE x \in ByActivationKey(key) : TRUE

UsersAfterActivate(u) ==
    IF u \in Usernames THEN [users EXCEPT ![u].is_active = TRUE] ELSE users
\* mutant: the record of the activated user keeps its key
SignupAfterActivate_KeepKey(u) == signup

SignupAfterActivate(u) ==
    IF u \in Usernames THEN [signup EXCEPT ![u].activation_key = NoToken] ELSE signup

\* the user whose record gets the new key, or Anonymous when no record matches
reissue_activation(key) ==
    IF ByActivationKey(key) = {} THEN Anonymous
    ELSE CHOOSE x \in ByActivationKey(key) : TRUE

SignupAfterReissue(u) ==
    [signup EXCEPT ![u].activation_key = issue, ![u].issued_at = now]

\* the user whose email is confirmed by the key, or Anonymous when no record matches
confirm_email(key) ==
    IF ByConfirmationKey(key) = {} THEN Anonymous
    ELSE CHOOSE x \in ByConfirmationKey(key) : TRUE

UsersAfterConfirm(u) ==
    IF u \in Usernames THEN [users EXCEPT ![u].email = signup[u].email_unconfirmed]
    ELSE users
SignupAfterConfirm(u) ==
    IF u \in Usernames
    THEN [signup EXCEPT ![u].email_unconfirmed = "", ![u].email_confirmation_key = NoToken]
    ELSE signup

\* ChangeEmailForm.save: the pending change of u is replaced
SignupAfterChangeEmail(u, email) ==
    [signup EXCEPT ![u].email_unconfirmed = email,
                   ![u].email_confirmation_key = issue]

\* SignupForm.save
UsersAfterCreate(username, email, password) ==
    [users EXCEPT ![username] =
        [exists |-> TRUE, is_active |-> ~settings.ACTIVATION_REQUIRED,
         email |-> email, password |-> password, profile |-> "bio0",
         privacy |-> "private", is_staff |-> FALSE]]
SignupAfterCreate(username) ==
    [signup EXCEPT ![username] =
        [activation_key |-> issue, issued_at |-> now,
         email_unconfirmed |-> "", email_confirmation_key |-> NoToken]]

\* the authentication backend: identification is a username or an email
authenticate(identification, password) ==
    LET found == {u \in Usernames : /\ users[u].exists
                                     /\ identification \in {u, users[u].email}
                                     /\ users[u].password = password}
    IN  IF found = {} THEN Anonymous ELSE CHOOSE u \in found : TRUE

\* django.contrib.auth.login: a session of another user is flushed first
login(s, u) ==
    IF s.user \notin {Anonymous, u} THEN [user |-> u, expiry |-> ExpiryUnset]
    ELSE [s EXCEPT !.user = u]

\* mutant: a falsy result of the store call is taken for a user
Truthy_Always(user) == TRUE

\* `if user:` on what a store call returned
Truthy(user) == user # Anonymous

\* mutant: the expiry test is inverted
ActivateBranch_Inverted(expired, retry) ==
    IF expired = "DoesNotExist" THEN "fail"
    ELSE IF expired = "expired" \/ ~retry THEN "activate"
    ELSE "retry"

\* mutant: the expiry test is dropped
ActivateBranch_IgnoreExpiry(expired, retry) ==
    IF expired = "DoesNotExist" THEN "fail" ELSE "activate"

\* mutant: the retry setting is not consulted
ActivateBranch_NoRetrySetting(expired, retry) ==
    IF expired = "DoesNotExist" THEN "fail"
    ELSE IF expired = "fresh" THEN "activate"
    ELSE "retry"

\* mutant: a missing record is answered with the retry template
ActivateBranch_MissingAsRetry(expired, retry) ==
    IF expired = "DoesNotExist" THEN "retry"
    ELSE IF expired = "fresh" \/ ~retry THEN "activate"
    ELSE "retry"

\* mutant: the view has no except clause for UserenaSignup.DoesNotExist
ActivateBranch_Uncaught(expired, retry) ==
    IF expired = "DoesNotExist" THEN "raise"
    ELSE IF expired = "fresh" \/ ~retry THEN "activate"
    ELSE "retry"

\* activate: which branch the view takes: "fail" | "activate" | "retry"
ActivateBranch(expired, retry) ==
    IF expired = "DoesNotExist" THEN "fail"
    ELSE IF expired = "fresh" \/ ~retry THEN "activate"
    ELSE "retry"

\* mutant: the expiry test is inverted
RetryBranch_Inverted(expired, retry) ==
    IF ~retry THEN "redirect"
    ELSE IF expired = "fresh" THEN "reissue"
    ELSE "redirect"

\* mutant: the retry setting is not consulted
RetryBranch_NoRetrySetting(expired, retry) ==
    IF expired = "expired" THEN "reissue" ELSE "redirect"

\* mutant: the result of the expiry check is not consulted
RetryBranch_AlwaysReissue(expired, retry) ==
    IF ~retry THEN "redirect" ELSE "reissue"

\* activate_retry: which branch the view takes: "redirect" | "reissue"
RetryBranch(expired, retry) ==
    IF ~retry THEN "redirect"
    ELSE IF expired = "expired" THEN "reissue"
    ELSE "redirect"

\* mutant: the is_active test is dropped
SigninAllowed_Always(user) == TRUE

\* SigninView.form_valid: the test before login
SigninAllowed(user) == users[user].is_active

\* ------------------------------------------------------ AuthorizationGate
\* mutant: the decorator looks the target up and checks no permission
permission_required_or_403_NoCheck(actor, perm, target) ==
    IF ~users[target].exists THEN "Http404" ELSE "Allowed"

\* "Http404" | "Forbidden" | "Allowed"
permission_required_or_403(actor, perm, target) ==
    IF ~users[target].exists THEN "Http404"
    ELSE IF /\ actor # Anonymous
            /\ users[actor].is_active
            /\ (actor = target \/ <<actor, perm, target>> \in elevated)
         THEN "Allowed"
         ELSE "Forbidden"

\* ------------------------------------------------------------------ Init
Init ==
    /\ users = [u \in Usernames |-> NoUserRow]
    /\ signup = [u \in Usernames |-> NoSignupRow]
    /\ issued = 0
    /\ now = 0
    /\ settings = [ACTIVATION_RETRY |-> FALSE, ACTIVATION_REQUIRED |-> TRUE,
                   SIGNIN_AFTER_SIGNUP |-> FALSE, DISABLE_SIGNUP |-> FALSE]
    /\ elevated = {<<"bob", "change_user", "alice">>, <<"bob", "change_profile", "alice">>}
    /\ session = NoSession
    /\ result = Response("init", "none", Anonymous, NoToken, NoUrl)
    /\ trace = <<>>
    /\ reqs = [r \in Requests |-> IdleRequest]

\* --------------------------------------------------------------- actions
Tick ==
    /\ now < MaxTime
    /\ now' = now + 1
    /\ result' = Response("tick", "none", Anonymous, NoToken, NoUrl)
    /\ trace' = <<>>
    /\ UNCHANGED <<users, signup, issued, settings, elevated, session, reqs>>

Reconfigure ==
    /\ settings' = [settings EXCEPT !.ACTIVATION_RETRY = ~settings.ACTIVATION_RETRY]
    /\ result' = Response("reconfigure", "none", Anonymous, NoToken, NoUrl)
    /\ trace' = <<>>
    /\ UNCHANGED <<users, signup, issued, now, elevated, session, reqs>>

\* mutant: the new user is signed in although activation is required
SigninAfterSignup_IgnoreActivation == settings.SIGNIN_AFTER_SIGNUP

\* SignupView.form_valid: the test before authenticate and login
SigninAfterSignup == settings.SIGNIN_AFTER_SIGNUP /\ ~settings.ACTIVATION_REQUIRED

\* mutant: the form accepts a username or an address that is already taken
SignupView_NoDuplicateCheck(username, email, password) ==
    /\ issued < MaxTokens
    /\ IF settings.DISABLE_SIGNUP
       THEN /\ result' = Response("signup", "Forbidden", Anonymous, NoToken, NoUrl)
            /\ trace' = <<>>
            /\ UNCHANGED <<users, signup, issued, session>>
       ELSE LET signin == SigninAfterSignup
                loggedout == IF session.user # Anonymous THEN NoSession ELSE session
            IN
            /\ users' = UsersAfterCreate(username, email, password)
            /\ signup' = SignupAfterCreate(username)
            /\ issued' = issue
            /\ session' = IF signin THEN login(loggedout, username) ELSE loggedout
            /\ result' = Response("signup", "Success", username, NoToken,
                                  <<"userena_signup_complete", username>>)
            /\ trace' = <<<<"write", "user", username>>,
                          <<"emit", "signup_complete", username>>>>
                        \o (IF session.user # Anonymous
                            THEN <<<<"logout", session.user>>>> ELSE <<>>)
                        \o (IF signin THEN <<<<"login", username>>>> ELSE <<>>)
    /\ UNCHANGED <<now, settings, elevated, reqs>>

\* mutant: dispatch does not look at USERENA_DISABLE_SIGNUP
SignupView_IgnoreDisabled(username, email, password) ==
    /\ issued < MaxTokens
    /\ IF users[username].exists \/ EmailInUse(email)
       THEN /\ result' = Response("signup", "FormInvalid", Anonymous, NoToken, NoUrl)
            /\ trace' = <<>>
            /\ UNCHANGED <<users, signup, issued, session>>
       ELSE LET signin == SigninAfterSignup
                loggedout == IF session.user # Anonymous THEN NoSession ELSE session
            IN
            /\ users' = UsersAfterCreate(username, email, password)
            /\ signup' = SignupAfterCreate(username)
            /\ issued' = issue
            /\ session' = IF signin THEN login(loggedout, username) ELSE loggedout
            /\ result' = Response("signup", "Success", username, NoToken,
                                  <<"userena_signup_complete", username>>)
            /\ trace' = <<<<"write", "user", username>>,
                          <<"emit", "signup_complete", username>>>>
                        \o (IF session.user # Anonymous
                            THEN <<<<"logout", session.user>>>> ELSE <<>>)
                        \o (IF signin THEN <<<<"login", username>>>> ELSE <<>>)
    /\ UNCHANGED <<now, settings, elevated, reqs>>

\* mutant: the requester who is signed in is not logged out
SignupView_NoLogout(username, email, password) ==
    /\ issued < MaxTokens
    /\ IF settings.DISABLE_SIGNUP
       THEN /\ result' = Response("signup", "Forbidden", Anonymous, NoToken, NoUrl)
            /\ trace' = <<>>
            /\ UNCHANGED <<users, signup, issued, session>>
       ELSE IF users[username].exists \/ EmailInUse(email)
       THEN /\ result' = Response("signup", "FormInvalid", Anonymous, NoToken, NoUrl)
            /\ trace' = <<>>
            /\ UNCHANGED <<users, signup, issued, session>>
       ELSE LET signin == SigninAfterSignup
                loggedout == session
            IN
            /\ users' = UsersAfterCreate(username, email, password)
            /\ signup' = SignupAfterCreate(username)
            /\ issued' = issue
            /\ session' = IF signin THEN login(loggedout, username) ELSE loggedout
            /\ result' = Response("signup", "Success", username, NoToken,
                                  <<"userena_signup_complete", username>>)
            /\ trace' = <<<<"write", "user", username>>,
                          <<"emit", "signup_complete", username>>>>
                        \o (IF signin THEN <<<<"login", username>>>> ELSE <<>>)
    /\ UNCHANGED <<now, settings, elevated, reqs>>

SignupView(username, email, password) ==
    /\ issued < MaxTokens
    /\ IF settings.DISABLE_SIGNUP
       THEN /\ result' = Response("signup", "Forbidden", Anonymous, NoToken, NoUrl)
            /\ trace' = <<>>
            /\ UNCHANGED <<users, signup, issued, session>>
       ELSE IF users[username].exists \/ EmailInUse(email)
       THEN /\ result' = Response("signup", "FormInvalid", Anonymous, NoToken, NoUrl)
            /\ trace' = <<>>
            /\ UNCHANGED <<users, signup, issued, session>>
       ELSE LET signin == SigninAfterSignup
                loggedout == IF session.user # Anonymous THEN NoSession ELSE session
            IN
            /\ users' = UsersAfterCreate(username, email, password)
            /\ signup' = SignupAfterCreate(username)
            /\ issued' = issue
            /\ session' = IF signin THEN login(loggedout, username) ELSE loggedout
            /\ result' = Response("signup", "Success", username, NoToken,
                                  <<"userena_signup_complete", username>>)
            /\ trace' = <<<<"write", "user", username>>,
                          <<"emit", "signup_complete", username>>>>
                        \o (IF session.user # Anonymous
                            THEN <<<<"logout", session.user>>>> ELSE <<>>)
                        \o (IF signin THEN <<<<"login", username>>>> ELSE <<>>)
    /\ UNCHANGED <<now, settings, elevated, reqs>>

\* mutant: the activated user is not signed in
activate_NoLogin(activation_key, success_url) ==
    LET expired == check_expired_activation(activation_key)
        branch == ActivateBranch(expired, settings.ACTIVATION_RETRY)
        user == activate_user(activation_key)
    IN
    /\ IF branch = "activate" /\ Truthy(user)
       THEN /\ users' = UsersAfterActivate(user)
            /\ signup' = SignupAfterActivate(user)
            /\ session' = session
            /\ result' = Response("activate", "Success", user, activation_key,
                             IF success_url THEN <<"success_url", user>>
                             ELSE <<"userena_profile_detail", user>>)
            /\ trace' = <<<<"read", "signup">>,
                          <<"write", "signup", user>>,
                          <<"emit", "activation_complete", user>>,
                          <<"login", user>>>>
       ELSE /\ result' = Response("activate",
                             CASE branch = "retry" -> "Expired"
                               [] branch \in {"fail", "activate"} -> "NotFound"
                               [] OTHER -> "DoesNotExist",
                             Anonymous, activation_key, NoUrl)
            /\ trace' = <<<<"read", "signup">>>>
            /\ UNCHANGED <<users, signup, session>>
    /\ UNCHANGED <<issued, now, settings, elevated, reqs>>

activate(activation_key, success_url) ==
    LET expired == check_expired_activation(activation_key)
        branch == ActivateBranch(expired, settings.ACTIVATION_RETRY)
        user == activate_user(activation_key)
    IN
    /\ IF branch = "activate" /\ Truthy(user)
       THEN /\ users' = UsersAfterActivate(user)
            /\ signup' = SignupAfterActivate(user)
            /\ session' = login(session, user)
            /\ result' = Response("activate", "Success", user, activation_key,
                             IF success_url THEN <<"success_url", user>>
                             ELSE <<"userena_profile_detail", user>>)
            /\ trace' = <<<<"read", "signup">>,
                          <<"write", "signup", user>>,
                          <<"emit", "activation_complete", user>>,
                          <<"login", user>>>>
       ELSE /\ result' = Response("activate",
                             CASE branch = "retry" -> "Expired"
                               [] branch \in {"fail", "activate"} -> "NotFound"
                               [] OTHER -> "DoesNotExist",
                             Anonymous, activation_key, NoUrl)
            /\ trace' = <<<<"read", "signup">>>>
            /\ UNCHANGED <<users, signup, session>>
    /\ UNCHANGED <<issued, now, settings, elevated, reqs>>

RedirectToActivate(activation_key) ==
    Response("activate_retry", "RedirectToActivate", Anonymous, activation_key,
             <<"userena_activate", activation_key>>)

\* mutant: the user is signed in when the key is reissued
activate_retry_LogsIn(activation_key) ==
    LET expired == check_expired_activation(activation_key)
        branch == RetryBranch(expired, settings.ACTIVATION_RETRY)
        user == reissue_activation(activation_key)
    IN
    /\ issued < MaxTokens
    /\ IF branch = "reissue" /\ Truthy(user)
       THEN /\ signup' = SignupAfterReissue(user)
            /\ issued' = issue
            /\ result' = Response("activate_retry", "Success", user, activation_key, NoUrl)
            /\ trace' = <<<<"read", "signup">>, <<"write", "signup", user>>>>
       ELSE /\ result' = RedirectToActivate(activation_key)
            /\ trace' = IF settings.ACTIVATION_RETRY THEN <<<<"read", "signup">>>> ELSE <<>>
            /\ UNCHANGED <<signup, issued>>
    /\ session' = IF branch = "reissue" /\ Truthy(user) THEN login(session, user)
                  ELSE session
    /\ UNCHANGED <<users, now, settings, elevated, reqs>>

activate_retry(activation_key) ==
    LET expired == check_expired_activation(activation_key)
        branch == RetryBranch(expired, settings.ACTIVATION_RETRY)
        user == reissue_activation(activation_key)
    IN
    /\ issued < MaxTokens
    /\ IF branch = "reissue" /\ Truthy(user)
       THEN /\ signup' = SignupAfterReissue(user)
            /\ issued' = issue
            /\ result' = Response("activate_retry", "Success", user, activation_key, NoUrl)
            /\ trace' = <<<<"read", "signup">>, <<"write", "signup", user>>>>
       ELSE /\ result' = RedirectToActivate(activation_key)
            /\ trace' = IF settings.ACTIVATION_RETRY THEN <<<<"read", "signup">>>> ELSE <<>>
            /\ UNCHANGED <<signup, issued>>
    /\ UNCHANGED <<users, now, settings, elevated, session, reqs>>

email_confirm(confirmation_key, success_url) ==
    LET user == confirm_email(confirmation_key)
    IN
    /\ IF Truthy(user)
       THEN /\ users' = UsersAfterConfirm(user)
            /\ signup' = SignupAfterConfirm(user)
            /\ result' = Response("email_confirm", "Success", user, confirmation_key,
                             IF success_url THEN <<"success_url">>
                             ELSE <<"userena_email_confirm_complete", user>>)
            /\ trace' = <<<<"read", "signup">>,
                          <<"write", "signup", user>>,
                          <<"emit", "confirmation_complete", user,
                            EmailOf(user), UnconfirmedOf(user)>>>>
       ELSE /\ result' = Response("email_confirm", "NotFound", Anonymous, confirmation_key, NoUrl)
            /\ trace' = <<<<"read", "signup">>>>
            /\ UNCHANGED <<users, signup>>
    /\ UNCHANGED <<issued, now, settings, elevated, session, reqs>>

\* mutant: a valid form is answered with the redirect but never saved
EmailChangeBody_NoSave(op, username, email, post, success_url) ==
    IF post /\ email # users[username].email /\ ~EmailInUse(email)
    THEN /\ result' = Response(op, "Success", username, NoToken,
                          IF success_url THEN <<"success_url">>
                          ELSE <<"userena_email_change_complete", username>>)
         /\ trace' = <<<<"gate", "change_user", username>>,
                       <<"read", "user", username>>>>
         /\ UNCHANGED <<users, signup, issued>>
    ELSE /\ result' = Response(op, "Form", username, NoToken, NoUrl)
         /\ trace' = <<<<"gate", "change_user", username>>,
                       <<"read", "user", username>>>>
         /\ UNCHANGED <<users, signup, issued>>

\* mutant: the form accepts the address the user already has
EmailChangeBody_SameEmailAllowed(op, username, email, post, success_url) ==
    IF post /\ (email = users[username].email \/ ~EmailInUse(email))
    THEN /\ signup' = SignupAfterChangeEmail(username, email)
         /\ issued' = issue
         /\ result' = Response(op, "Success", username, NoToken,
                          IF success_url THEN <<"success_url">>
                          ELSE <<"userena_email_change_complete", username>>)
         /\ trace' = <<<<"gate", "change_user", username>>,
                       <<"read", "user", username>>,
                       <<"write", "signup", username>>>>
         /\ UNCHANGED users
    ELSE /\ result' = Response(op, "Form", username, NoToken, NoUrl)
         /\ trace' = <<<<"gate", "change_user", username>>,
                       <<"read", "user", username>>>>
         /\ UNCHANGED <<users, signup, issued>>

\* mutant: the new address is written to the user at once
EmailChangeBody_ApplyNow(op, username, email, post, success_url) ==
    IF post /\ email # users[username].email /\ ~EmailInUse(email)
    THEN /\ users' = [users EXCEPT ![username].email = email]
         /\ signup' = SignupAfterChangeEmail(username, email)
         /\ issued' = issue
         /\ result' = Response(op, "Success", username, NoToken,
                          IF success_url THEN <<"success_url">>
                          ELSE <<"userena_email_change_complete", username>>)
         /\ trace' = <<<<"gate", "change_user", username>>,
                       <<"read", "user", username>>,
                       <<"write", "signup", username>>>>
    ELSE /\ result' = Response(op, "Form", username, NoToken, NoUrl)
         /\ trace' = <<<<"gate", "change_user", username>>,
                       <<"read", "user", username>>>>
         /\ UNCHANGED <<users, signup, issued>>

\* the body shared by email_change and EmailChangeView once the gate has passed
EmailChangeBody(op, username, email, post, success_url) ==
    IF post /\ email # users[username].email /\ ~EmailInUse(email)
    THEN /\ signup' = SignupAfterChangeEmail(username, email)
         /\ issued' = issue
         /\ result' = Response(op, "Success", username, NoToken,
                          IF success_url THEN <<"success_url">>
                          ELSE <<"userena_email_change_complete", username>>)
         /\ trace' = <<<<"gate", "change_user", username>>,
                       <<"read", "user", username>>,
                       <<"write", "signup", username>>>>
                     \o (IF success_url
                         THEN <<<<"emit", "email_change", username,
                                  users[username].email, users[username].email>>>>
                         ELSE <<>>)
         /\ UNCHANGED users
    ELSE /\ result' = Response(op, "Form", username, NoToken, NoUrl)
         /\ trace' = <<<<"gate", "change_user", username>>,
                       <<"read", "user", username>>>>
         /\ UNCHANGED <<users, signup, issued>>

Denied(op, perm, username, gate) ==
    /\ result' = Response(op, gate, username, NoToken, NoUrl)
    /\ trace' = <<<<"gate", perm, username>>>>

email_change(username, email, post, success_url) ==
    LET gate == permission_required_or_403(session.user, "change_user", username)
    IN
    /\ issued < MaxTokens
    /\ IF gate # "Allowed"
       THEN /\ Denied("email_change", "change_user", username, gate)
            /\ UNCHANGED <<users, signup, issued>>
       ELSE EmailChangeBody("email_change", username, email, post, success_url)
    /\ UNCHANGED <<now, settings, elevated, session, reqs>>

EmailChangeView(username, email, post, success_url) ==
    LET gate == permission_required_or_403(session.user, "change_user", username)
    IN
    /\ issued < MaxTokens
    /\ IF gate # "Allowed"
       THEN /\ Denied("email_change", "change_user", username, gate)
            /\ UNCHANGED <<users, signup, issued>>
       ELSE EmailChangeBody("email_change", username, email, post, success_url)
    /\ UNCHANGED <<now, settings, elevated, session, reqs>>

\* mutant: the signal is sent only when a success URL was supplied
PasswordChangeBody_EmitOnlyCustomUrl(op, username, old, new, post, success_url) ==
    IF post /\ old = users[username].password
    THEN /\ users' = [users EXCEPT ![username].password = new]
         /\ result' = Response(op, "Success", username, NoToken,
                          IF success_url THEN <<"success_url">>
                          ELSE <<"userena_password_change_complete", username>>)
         /\ trace' = <<<<"gate", "change_user", username>>,
                       <<"read", "user", username>>,
                       <<"write", "user", username>>>>
                     \o (IF success_url
                         THEN <<<<"emit", "password_complete", username>>>>
                         ELSE <<>>)
    ELSE /\ result' = Response(op, "Form", username, NoToken, NoUrl)
         /\ trace' = <<<<"gate", "change_user", username>>,
                       <<"read", "user", username>>>>
         /\ UNCHANGED users

\* the body shared by password_change and PasswordChangeView once the gate has
\* passed
PasswordChangeBody(op, username, old, new, post, success_url) ==
    IF post /\ old = users[username].password
    THEN /\ users' = [users EXCEPT ![username].password = new]
         /\ result' = Response(op, "Success", username, NoToken,
                          IF success_url THEN <<"success_url">>
                          ELSE <<"userena_password_change_complete", username>>)
         /\ trace' = <<<<"gate", "change_user", username>>,
                       <<"read", "user", username>>,
                       <<"write", "user", username>>,
                       <<"emit", "password_complete", username>>>>
    ELSE /\ result' = Response(op, "Form", username, NoToken, NoUrl)
         /\ trace' = <<<<"gate", "change_user", username>>,
                       <<"read", "user", username>>>>
         /\ UNCHANGED users

password_change(username, old, new, post, success_url) ==
    LET gate == permission_required_or_403(session.user, "change_user", username)
    IN
    /\ IF gate # "Allowed"
       THEN /\ Denied("password_change", "change_user", username, gate)
            /\ UNCHANGED users
       ELSE PasswordChangeBody("password_change", username, old, new, post, success_url)
    /\ UNCHANGED <<signup, issued, now, settings, elevated, session, reqs>>

PasswordChangeView(username, old, new, post, success_url) ==
    LET gate == permission_required_or_403(session.user, "change_user", username)
    IN
    /\ IF gate # "Allowed"
       THEN /\ Denied("password_change", "change_user", username, gate)
            /\ UNCHANGED users
       ELSE PasswordChangeBody("password_change", username, old, new, post, success_url)
    /\ UNCHANGED <<signup, issued, now, settings, elevated, session, reqs>>

\* mutant: profile_change is sent on every successful edit
ProfileEditView_AlwaysEmit(username, value, post, valid, success_url) ==
    LET gate == permission_required_or_403(session.user, "change_profile", username)
    IN
    /\ IF gate # "Allowed"
       THEN /\ Denied("profile_edit", "change_profile", username, gate)
            /\ UNCHANGED users
       ELSE IF post /\ valid
       THEN /\ users' = [users EXCEPT ![username].profile = value]
            /\ result' = Response("profile_edit", "Success", username, NoToken,
                             IF success_url THEN <<"success_url">>
                             ELSE <<"userena_profile_detail", username>>)
            /\ trace' = <<<<"gate", "change_profile", username>>,
                          <<"read", "profile", username>>,
                          <<"write", "profile", username>>,
                          <<"emit", "profile_change", username>>>>
       ELSE /\ result' = Response("profile_edit", "Form", username, NoToken, NoUrl)
            /\ trace' = <<<<"gate", "change_profile", username>>,
                          <<"read", "profile", username>>>>
            /\ UNCHANGED users
    /\ UNCHANGED <<signup, issued, now, settings, elevated, session, reqs>>

ProfileEditView(username, value, post, valid, success_url) ==
    LET gate == permission_required_or_403(session.user, "change_profile", username)
    IN
    /\ IF gate # "Allowed"
       THEN /\ Denied("profile_edit", "change_profile", username, gate)
            /\ UNCHANGED users
       ELSE IF post /\ valid
       THEN /\ users' = [users EXCEPT ![username].profile = value]
            /\ result' = Response("profile_edit", "Success", username, NoToken,
                             IF success_url THEN <<"success_url">>
                             ELSE <<"userena_profile_detail", username>>)
            /\ trace' = <<<<"gate", "change_profile", username>>,
                          <<"read", "profile", username>>,
                          <<"write", "profile", username>>>>
                        \o (IF success_url
                            THEN <<<<"emit", "profile_change", username>>>>
                            ELSE <<>>)
       ELSE /\ result' = Response("profile_edit", "Form", username, NoToken, NoUrl)
            /\ trace' = <<<<"gate", "change_profile", username>>,
                          <<"read", "profile", username>>>>
            /\ UNCHANGED users
    /\ UNCHANGED <<signup, issued, now, settings, elevated, session, reqs>>

\* Profile.can_view_profile: a public profile is open to every viewer, the
\* owner and staff see every profile
can_view_profile(owner, viewer) ==
    \/ users[owner].privacy = "public"
    \/ /\ viewer # Anonymous
       /\ (viewer = owner \/ users[viewer].is_staff)

\* mutant: the profile is rendered without asking can_view_profile
ProfileDetailView_NoCheck(username) ==
    /\ IF ~users[username].exists
       THEN /\ result' = Response("profile_detail", "Http404", username, NoToken, NoUrl)
            /\ trace' = <<<<"read", "user", username>>>>
       ELSE /\ result' = Response("profile_detail", "Success", username, NoToken, NoUrl)
            /\ trace' = <<<<"read", "user", username>>,
                          <<"read", "profile", username>>,
                          <<"render", "profile", username, users[username].profile>>>>
    /\ UNCHANGED <<users, signup, issued, now, settings, elevated, session, reqs>>

\* ProfileDetailView.get_object and the rendering of the object it returns
ProfileDetailView(username) ==
    /\ IF ~users[username].exists
       THEN /\ result' = Response("profile_detail", "Http404", username, NoToken, NoUrl)
            /\ trace' = <<<<"read", "user", username>>>>
       ELSE IF ~can_view_profile(username, session.user)
       THEN /\ result' = Response("profile_detail", "Forbidden", username, NoToken, NoUrl)
            /\ trace' = <<<<"read", "user", username>>,
                          <<"read", "profile", username>>>>
       ELSE /\ result' = Response("profile_detail", "Success", username, NoToken, NoUrl)
            /\ trace' = <<<<"read", "user", username>>,
                          <<"read", "profile", username>>,
                          <<"render", "profile", username, users[username].profile>>>>
    /\ UNCHANGED <<users, signup, issued, now, settings, elevated, session, reqs>>

\* utils.signin_redirect
signin_redirect(next, user) ==
    IF next = "safe" THEN <<"next">> ELSE <<"userena_profile_detail", user>>

\* mutant: the days are handed to set_expiry as seconds
SessionExpiry_DaysAsSeconds(remember_me) ==
    IF remember_me THEN REMEMBER_ME_DAYS ELSE 0

\* SigninView.form_valid: the argument of session.set_expiry
SessionExpiry(remember_me) ==
    IF remember_me THEN REMEMBER_ME_DAYS * 86400 ELSE 0

\* mutant: the requested next URL is not handed to the redirect function
get_success_url_IgnoreNext(object, next) ==
    IF users[object].is_active
    THEN signin_redirect("none", object)
    ELSE <<"userena_disabled", object>>

\* SigninView.get_success_url
get_success_url(object, next) ==
    IF users[object].is_active
    THEN signin_redirect(next, object)
    ELSE <<"userena_disabled", object>>

SigninView(identification, password, remember_me, next) ==
    LET user == authenticate(identification, password)
    IN
    /\ IF user = Anonymous
       THEN /\ result' = Response("signin", "InvalidCredentials", Anonymous, NoToken, NoUrl)
            /\ trace' = <<<<"authenticate", Anonymous>>>>
            /\ UNCHANGED session
       ELSE IF SigninAllowed(user)
       THEN /\ session' = [login(session, user) EXCEPT !.expiry =
                                                      SessionExpiry(remember_me)]
            /\ result' = Response("signin", "Success", user, NoToken,
                                  get_success_url(user, next))
            /\ trace' = <<<<"authenticate", user>>,
                          <<"login", user>>,
                          <<"set_expiry", IF remember_me THEN "remember" ELSE "0">>,
                          <<"emit", "account_signin", user>>>>
       ELSE /\ result' = Response("signin", "AccountDisabled", user, NoToken,
                                  get_success_url(user, next))
            /\ trace' = <<<<"authenticate", user>>>>
            /\ UNCHANGED session
    /\ UNCHANGED <<users, signup, issued, now, settings, elevated, reqs>>

\* mutant: the view does not look at is_active
disabled_account_NoActiveCheck(username) ==
    /\ IF ~users[username].exists
       THEN /\ result' = Response("disabled_account", "Http404", username, NoToken, NoUrl)
            /\ trace' = <<<<"read", "user", username>>>>
       ELSE /\ result' = Response("disabled_account", "Success", username, NoToken, NoUrl)
            /\ trace' = <<<<"read", "user", username>>,
                          <<"read", "profile", username>>,
                          <<"render", "disabled", username>>>>
    /\ UNCHANGED <<users, signup, issued, now, settings, elevated, session, reqs>>

\* disabled_account: get_object_or_404, Http404 for an active user, else the
\* template with the user and the profile
disabled_account(username) ==
    /\ IF ~users[username].exists
       THEN /\ result' = Response("disabled_account", "Http404", username, NoToken, NoUrl)
            /\ trace' = <<<<"read", "user", username>>>>
       ELSE IF users[username].is_active
       THEN /\ result' = Response("disabled_account", "Http404", username, NoToken, NoUrl)
            /\ trace' = <<<<"read", "user", username>>>>
       ELSE /\ result' = Response("disabled_account", "Success", username, NoToken, NoUrl)
            /\ trace' = <<<<"read", "user", username>>,
                          <<"read", "profile", username>>,
                          <<"render", "disabled", username>>>>
    /\ UNCHANGED <<users, signup, issued, now, settings, elevated, session, reqs>>

\* mutant: the session is flushed before the signal is sent
signout_LogoutFirst ==
    /\ session' = NoSession
    /\ result' = Response("signout", "Success", session.user, NoToken,
                          <<"userena_redirect_on_signout">>)
    /\ trace' = <<<<"logout", session.user>>,
                  <<"emit", "account_signout", session.user>>>>
    /\ UNCHANGED <<users, signup, issued, now, settings, elevated, reqs>>

\* signout: the signal, then django.contrib.auth.views.logout, which flushes
\* the session
signout ==
    /\ session' = NoSession
    /\ result' = Response("signout", "Success", session.user, NoToken,
                          <<"userena_redirect_on_signout">>)
    /\ trace' = <<<<"emit", "account_signout", session.user>>,
                  <<"logout", session.user>>>>
    /\ UNCHANGED <<users, signup, issued, now, settings, elevated, reqs>>

\* ----------------------------------------- handlers with a raising receiver
\* Every view sends its signal with Signal.send, which lets an exception of a
\* receiver propagate to the caller.  Each action below is the handler run with
\* a receiver connected to its signal that raises: the code before the send has
\* run, the code after it has not, and the request ends in the uncaught
\* exception.
Raised(op, user) == Response(op, "ServerError", user, NoToken, NoUrl)

\* SignupView.form_valid: form.save(), signup_complete.send; the logout, the
\* login and the redirect are not reached
SignupViewRaising(username, email, password) ==
    /\ issued < MaxTokens
    /\ ~settings.DISABLE_SIGNUP
    /\ ~(users[username].exists \/ EmailInUse(email))
    /\ users' = UsersAfterCreate(username, email, password)
    /\ signup' = SignupAfterCreate(username)
    /\ issued' = issue
    /\ result' = Raised("signup", username)
    /\ trace' = <<<<"write", "user", username>>,
                  <<"emit", "signup_complete", username>>,
                  <<"raise", "signup_complete">>>>
    /\ UNCHANGED <<now, settings, elevated, session, reqs>>

\* password_change and PasswordChangeView.form_valid: the password is saved,
\* password_complete.send; the redirect is not returned
PasswordChangeViewRaising(username, old, new) ==
    /\ permission_required_or_403(session.user, "change_user", username) = "Allowed"
    /\ old = users[username].password
    /\ users' = [users EXCEPT ![username].password = new]
    /\ result' = Raised("password_change", username)
    /\ trace' = <<<<"gate", "change_user", username>>,
                  <<"read", "user", username>>,
                  <<"write", "user", username>>,
                  <<"emit", "password_complete", username>>,
                  <<"raise", "password_complete">>>>
    /\ UNCHANGED <<signup, issued, now, settings, elevated, session, reqs>>

\* ProfileEditView with a success URL: form_valid saves, get_success_url sends
\* profile_change; the redirect is not returned
ProfileEditViewRaising(username, value) ==
    /\ permission_required_or_403(session.user, "change_profile", username) = "Allowed"
    /\ users' = [users EXCEPT ![username].profile = value]
    /\ result' = Raised("profile_edit", username)
    /\ trace' = <<<<"gate", "change_profile", username>>,
                  <<"read", "profile", username>>,
                  <<"write", "profile", username>>,
                  <<"emit", "profile_change", username>>,
                  <<"raise", "profile_change">>>>
    /\ UNCHANGED <<signup, issued, now, settings, elevated, session, reqs>>

\* email_change and EmailChangeView with a success URL: form.save(),
\* email_change.send; the redirect is not returned
EmailChangeViewRaising(username, email) ==
    /\ issued < MaxTokens
    /\ permission_required_or_403(session.user, "change_user", username) = "Allowed"
    /\ email # users[username].email /\ ~EmailInUse(email)
    /\ signup' = SignupAfterChangeEmail(username, email)
    /\ issued' = issue
    /\ result' = Raised("email_change", username)
    /\ trace' = <<<<"gate", "change_user", username>>,
                  <<"read", "user", username>>,
                  <<"write", "signup", username>>,
                  <<"emit", "email_change", username,
                    users[username].email, users[username].email>>,
                  <<"raise", "email_change">>>>
    /\ UNCHANGED <<users, now, settings, elevated, session, reqs>>

\* SigninView.form_valid: login, set_expiry, account_signin.send.  The session
\* was changed in memory; whether the session middleware still saves it when
\* the view ends in an exception depends on the framework version, so both
\* outcomes are possible.
SigninViewRaising(identification, password, remember_me) ==
    LET user == authenticate(identification, password)
    IN
    /\ user # Anonymous
    /\ SigninAllowed(user)
    /\ session' \in {session,
                     [login(session, user) EXCEPT !.expiry = SessionExpiry(remember_me)]}
    /\ result' = Raised("signin", user)
    /\ trace' = <<<<"authenticate", user>>,
                  <<"login", user>>,
                  <<"set_expiry", IF remember_me THEN "remember" ELSE "0">>,
                  <<"emit", "account_signin", user>>,
                  <<"raise", "account_signin">>>>
    /\ UNCHANGED <<users, signup, issued, now, settings, elevated, reqs>>

\* ------------------------------------------- handlers taken step by step
\* Two requests of one browser run activate and email_confirm with their store
\* calls interleaved.  Each store call is one step; the views hold no lock.
Finish(r, outcome) == [reqs EXCEPT ![r].pc = "done", ![r].outcome = outcome]

StartRequest(r, op, key) ==
    /\ reqs[r].pc \in {"idle", "done"}
    \* the requests in flight are duplicates of one another
    /\ \A q \in Requests \ {r} :
          reqs[q].pc = "idle" \/ (reqs[q].op = op /\ reqs[q].key = key)
    /\ reqs' = [reqs EXCEPT ![r] = [pc |-> IF op = "activate" THEN "check" ELSE "confirm",
                                    op |-> op, key |-> key, user |-> Anonymous,
                                    outcome |-> "none"]]
    /\ UNCHANGED <<users, signup, issued, now, settings, elevated, session, result, trace>>

\* activate: UserenaSignup.objects.check_expired_activation and the branch on it
ActivateCheck(r) ==
    LET expired == check_expired_activation(reqs[r].key)
        branch == ActivateBranch(expired, settings.ACTIVATION_RETRY)
    IN
    /\ reqs[r].pc = "check"
    /\ reqs' = CASE branch = "fail" -> Finish(r, "NotFound")
                 [] branch = "activate" -> [reqs EXCEPT ![r].pc = "apply"]
                 [] branch = "retry" -> Finish(r, "Expired")
    /\ UNCHANGED <<users, signup, issued, now, settings, elevated, session, result, trace>>

\* activate: UserenaSignup.objects.activate_user and the branch on its result
ActivateApply(r) ==
    LET user == activate_user(reqs[r].key)
    IN
    /\ reqs[r].pc = "apply"
    /\ IF Truthy(user)
       THEN /\ users' = UsersAfterActivate(user)
            /\ signup' = SignupAfterActivate(user)
            /\ reqs' = [reqs EXCEPT ![r].pc = "login", ![r].user = user]
       ELSE /\ reqs' = Finish(r, "NotFound")
            /\ UNCHANGED <<users, signup>>
    /\ UNCHANGED <<issued, now, settings, elevated, session, result, trace>>

\* activate: authenticate, login and the redirect
ActivateLogin(r) ==
    /\ reqs[r].pc = "login"
    /\ session' = login(session, reqs[r].user)
    /\ reqs' = Finish(r, "Success")
    /\ UNCHANGED <<users, signup, issued, now, settings, elevated, result, trace>>

\* email_confirm: UserenaSignup.objects.confirm_email and the branch on its result
ConfirmApply(r) ==
    LET user == confirm_email(reqs[r].key)
    IN
    /\ reqs[r].pc = "confirm"
    /\ IF Truthy(user)
       THEN /\ users' = UsersAfterConfirm(user)
            /\ signup' = SignupAfterConfirm(user)
            /\ reqs' = [Finish(r, "Success") EXCEPT ![r].user = user]
       ELSE /\ reqs' = Finish(r, "NotFound")
            /\ UNCHANGED <<users, signup>>
    /\ UNCHANGED <<issued, now, settings, elevated, session, result, trace>>

\* ------------------------------------------------------- specifications
\* Token lifecycle: signup, activation, reissue, email change and confirmation,
\* with the clock and the retry setting moving.  One request at a time.
Next ==
    \/ Tick
    \/ Reconfigure
    \/ \E i \in SignupInputs : SignupView(i[1], i[2], "pw")
    \/ \E k \in Keys, s \in BOOLEAN : activate(k, s)
    \/ \E k \in Keys : activate_retry(k)
    \/ \E u \in Usernames, e \in Emails, post \in BOOLEAN, s \in BOOLEAN :
          email_change(u, e, post, s)
    \/ \E u \in Usernames, e \in Emails, post \in BOOLEAN, s \in BOOLEAN :
          EmailChangeView(u, e, post, s)
    \/ \E k \in Keys, s \in BOOLEAN : email_confirm(k, s)

Spec == Init /\ [][Next]_vars

\* Gated operations and sign-in on top of signup and activation.  One request
\* at a time.
NextAccess ==
    \/ \E i \in SignupInputs, p \in Passwords : SignupView(i[1], i[2], p)
    \/ \E k \in Keys : activate(k, FALSE)
    \/ \E id \in Usernames \cup Emails, p \in Passwords, r \in BOOLEAN,
          n \in {"none", "safe", "unsafe"} : SigninView(id, p, r, n)
    \/ \E u \in Usernames, e \in Emails, post \in BOOLEAN, s \in BOOLEAN :
          email_change(u, e, post, s)
    \/ \E u \in Usernames, old \in Passwords, new \in Passwords,
          post \in BOOLEAN, s \in BOOLEAN : password_change(u, old, new, post, s)
    \/ \E u \in Usernames, old \in Passwords, new \in Passwords,
          post \in BOOLEAN, s \in BOOLEAN : PasswordChangeView(u, old, new, post, s)
    \/ \E u \in Usernames, v \in ProfileValues, post \in BOOLEAN, valid \in BOOLEAN,
          s \in BOOLEAN : ProfileEditView(u, v, post, valid, s)

SpecAccess == Init /\ [][NextAccess]_vars

\* Signup under every configuration of activation-required and
\* signin-after-signup, followed by activation, sign-in and sign-out.  The
\* configuration is read from the settings module and does not change.
Configurations ==
    {c \in [ACTIVATION_RETRY : BOOLEAN, ACTIVATION_REQUIRED : BOOLEAN,
            SIGNIN_AFTER_SIGNUP : BOOLEAN, DISABLE_SIGNUP : BOOLEAN] :
        ~c.ACTIVATION_RETRY}

InitSignup ==
    /\ users = [u \in Usernames |-> NoUserRow]
    /\ signup = [u \in Usernames |-> NoSignupRow]
    /\ issued = 0
    /\ now = 0
    /\ settings \in Configurations
    /\ elevated = {}
    /\ session = NoSession
    /\ result = Response("init", "none", Anonymous, NoToken, NoUrl)
    /\ trace = <<>>
    /\ reqs = [r \in Requests |-> IdleRequest]

NextSignup ==
    \/ \E i \in SignupInputs, p \in Passwords : SignupView(i[1], i[2], p)
    \/ \E k \in Keys : activate(k, FALSE)
    \/ \E id \in Usernames \cup Emails, p \in Passwords, r \in BOOLEAN,
          n \in {"none", "safe", "unsafe"} : SigninView(id, p, r, n)
    \/ signout

SpecSignup == InitSignup /\ [][NextSignup]_vars

\* The five operations that send a signal after their mutation, each with and
\* without a raising receiver, on top of signup and activation.
NextListener ==
    \/ \E i \in SignupInputs : SignupView(i[1], i[2], "pw")
    \/ \E i \in SignupInputs : SignupViewRaising(i[1], i[2], "pw")
    \/ \E k \in Keys : activate(k, FALSE)
    \/ \E u \in Usernames, r \in BOOLEAN : SigninView(u, "pw", r, "none")
    \/ \E u \in Usernames, r \in BOOLEAN : SigninViewRaising(u, "pw", r)
    \/ \E u \in Usernames, new \in Passwords : PasswordChangeViewRaising(u, "pw", new)
    \/ \E u \in Usernames, v \in ProfileValues : ProfileEditViewRaising(u, v)
    \/ \E u \in Usernames, e \in Emails : EmailChangeViewRaising(u, e)

SpecListener == Init /\ [][NextListener]_vars

\* Profile pages.  The users and their profiles come from fixtures: alice is
\* there, bob may be; each has a privacy setting and may be staff.  Viewers sign
\* in and out, profiles are edited and viewed.
FixtureUser(email, privacy, is_staff) ==
    [exists |-> TRUE, is_active |-> TRUE, email |-> email, password |-> "pw",
     profile |-> "bio0", privacy |-> privacy, is_staff |-> is_staff]

InitProfile ==
    /\ \E pa \in {"public", "private"}, sa \in BOOLEAN :
       \E rb \in {NoUserRow} \cup {FixtureUser("b@x", pb, sb) :
                                      pb \in {"public", "private"}, sb \in BOOLEAN} :
          users = [u \in Usernames |->
                     IF u = "alice" THEN FixtureUser("a@x", pa, sa) ELSE rb]
    /\ signup = [u \in Usernames |-> NoSignupRow]
    /\ issued = 0
    /\ now = 0
    /\ settings = [ACTIVATION_RETRY |-> FALSE, ACTIVATION_REQUIRED |-> TRUE,
                   SIGNIN_AFTER_SIGNUP |-> FALSE, DISABLE_SIGNUP |-> FALSE]
    /\ elevated = {}
    /\ session = NoSession
    /\ result = Response("init", "none", Anonymous, NoToken, NoUrl)
    /\ trace = <<>>
    /\ reqs = [r \in Requests |-> IdleRequest]

NextProfile ==
    \/ \E u \in Usernames : ProfileDetailView(u)
    \/ \E u \in Usernames, r \in BOOLEAN : SigninView(u, "pw", r, "none")
    \/ signout
    \/ \E u \in Usernames, v \in ProfileValues : ProfileEditView(u, v, TRUE, TRUE, FALSE)

SpecProfile == InitProfile /\ [][NextProfile]_vars

\* All nine operations in one run, retry enabled, the clock moving.
InitCore ==
    /\ users = [u \in Usernames |-> NoUserRow]
    /\ signup = [u \in Usernames |-> NoSignupRow]
    /\ issued = 0
    /\ now = 0
    /\ settings = [ACTIVATION_RETRY |-> TRUE, ACTIVATION_REQUIRED |-> TRUE,
                   SIGNIN_AFTER_SIGNUP |-> FALSE, DISABLE_SIGNUP |-> FALSE]
    /\ elevated = {}
    /\ session = NoSession
    /\ result = Response("init", "none", Anonymous, NoToken, NoUrl)
    /\ trace = <<>>
    /\ reqs = [r \in Requests |-> IdleRequest]

NextCore ==
    \/ Tick
    \/ \E i \in SignupInputs : SignupView(i[1], i[2], "pw")
    \/ \E k \in Keys : activate(k, FALSE)
    \/ \E k \in Keys : activate_retry(k)
    \/ \E u \in Usernames : email_change(u, "n@x", TRUE, FALSE)
    \/ \E k \in Keys : email_confirm(k, FALSE)
    \/ \E u \in Usernames : password_change(u, "pw", "pw2", TRUE, FALSE)
    \/ \E u \in Usernames : ProfileEditView(u, "bio1", TRUE, TRUE, FALSE)
    \/ \E u \in Usernames, p \in Passwords : SigninView(u, p, FALSE, "none")
    \/ signout

SpecCore == InitCore /\ [][NextCore]_vars

\* Reissue of expired activation tokens: retry is enabled, activation is
\* required or not, and the clock moves.  The configuration is read from the
\* settings module and does not change.
InitRetry ==
    /\ users = [u \in Usernames |-> NoUserRow]
    /\ signup = [u \in Usernames |-> NoSignupRow]
    /\ issued = 0
    /\ now = 0
    /\ \E required \in BOOLEAN :
          settings = [ACTIVATION_RETRY |-> TRUE, ACTIVATION_REQUIRED |-> required,
                      SIGNIN_AFTER_SIGNUP |-> FALSE, DISABLE_SIGNUP |-> FALSE]
    /\ elevated = {}
    /\ session = NoSession
    /\ result = Response("init", "none", Anonymous, NoToken, NoUrl)
    /\ trace = <<>>
    /\ reqs = [r \in Requests |-> IdleRequest]

NextRetry ==
    \/ Tick
    \/ \E i \in SignupInputs : SignupView(i[1], i[2], "pw")
    \/ \E k \in Keys, s \in BOOLEAN : activate(k, s)
    \/ \E k \in Keys : activate_retry(k)
    \/ \E u \in Usernames : SigninView(u, "pw", FALSE, "none")
    \/ \E u \in Usernames : email_change(u, "n@x", TRUE, FALSE)

SpecRetry == InitRetry /\ [][NextRetry]_vars

\* Signup on a site that already has a user: alice comes from a fixture, the
\* configuration, signup disabled or not, is read from the settings module.
InitClosed ==
    /\ users = [u \in Usernames |->
                  IF u = "alice" THEN FixtureUser("a@x", "private", FALSE) ELSE NoUserRow]
    /\ signup = [u \in Usernames |-> NoSignupRow]
    /\ issued = 0
    /\ now = 0
    /\ settings \in Configurations
    /\ elevated = {}
    /\ session = NoSession
    /\ result = Response("init", "none", Anonymous, NoToken, NoUrl)
    /\ trace = <<>>
    /\ reqs = [r \in Requests |-> IdleRequest]

NextClosed ==
    \/ \E i \in SignupInputs, p \in Passwords : SignupView(i[1], i[2], p)
    \/ \E k \in Keys : activate(k, FALSE)
    \/ \E u \in Usernames, p \in Passwords, r \in BOOLEAN : SigninView(u, p, r, "none")
    \/ signout

SpecClosed == InitClosed /\ [][NextClosed]_vars

\* Sign-in of users who are not activated yet and the disabled-account page
\* the sign-in sends them to, among signups and activations.
NextDisabled ==
    \/ \E i \in SignupInputs : SignupView(i[1], i[2], "pw")
    \/ \E k \in Keys : activate(k, FALSE)
    \/ \E id \in Usernames \cup Emails, p \in Passwords :
          SigninView(id, p, FALSE, "none")
    \/ \E u \in Usernames : disabled_account(u)

SpecDisabled == Init /\ [][NextDisabled]_vars

\* Two interleaved requests, each an activate or an email_confirm, among
\* signups, email change requests, clock ticks and changes of the retry setting.
NextConc ==
    \/ Tick
    \/ Reconfigure
    \/ \E i \in SignupInputs : SignupView(i[1], i[2], "pw")
    \/ \E u \in Usernames, e \in Emails : email_change(u, e, TRUE, FALSE)
    \/ \E r \in Requests, op \in {"activate", "email_confirm"}, k \in Keys :
          StartRequest(r, op, k)
    \/ \E r \in Requests : ActivateCheck(r)
    \/ \E r \in Requests : ActivateApply(r)
    \/ \E r \in Requests : ActivateLogin(r)
    \/ \E r \in Requests : ConfirmApply(r)

SpecConc == Init /\ [][NextConc]_vars

\* ---------------------------------------------------------------- claims
\* predicates on the activation record of a key
FreshKey(k) ==
    \E u \in ByActivationKey(k) : now - signup[u].issued_at <= ActivationWindow
ExpiredKey(k) ==
    \E u \in ByActivationKey(k) : now - signup[u].issued_at > ActivationWindow

\* a step after which the owner of k is active, its record is cleared and k
\* matches no record any more
ActivatedBy(k) ==
    \E u \in ByActivationKey(k) :
        /\ result'.outcome = "Success"
        /\ result'.user = u
        /\ users'[u].is_active
        /\ signup'[u].activation_key = NoToken
        /\ \A v \in Usernames : signup'[v].activation_key # k

\* a step that answers NotFound and leaves the store and the session alone
NotFoundNoChange ==
    /\ result'.outcome = "NotFound"
    /\ UNCHANGED <<users, signup, issued, session>>

\* a key that was minted and matches no record stays without a record
DeadActivationKeysStayDead ==
    \A k \in Keys : (k <= issued /\ ByActivationKey(k) = {}) => (ByActivationKey(k) = {})'
DeadConfirmationKeysStayDead ==
    \A k \in Keys : (k <= issued /\ ByConfirmationKey(k) = {}) => (ByConfirmationKey(k) = {})'

\* a step of a view on a key: the response names the view and the key
ActivateStep(k) ==
    result'.op = "activate" /\ result'.key = k /\ \E s \in BOOLEAN : activate(k, s)
RetryStep(k) ==
    result'.op = "activate_retry" /\ result'.key = k /\ activate_retry(k)
ConfirmStep(k) ==
    result'.op = "email_confirm" /\ result'.key = k
        /\ \E s \in BOOLEAN : email_confirm(k, s)

Emits(t, name) == \E i \in 1..Len(t) : t[i][1] = "emit" /\ t[i][2] = name

\* C1: for a live, unexpired activation token t the first Activate(t) makes the
\* owner active, clears the record and returns the owner; Activate(t) on a token
\* without a record (so every later Activate(t)) answers NotFound and changes
\* nothing, and a consumed token never gets a record again.
C1_ActivateTwice ==
    [][/\ \A k \in Keys :
             ActivateStep(k) =>
                /\ FreshKey(k) => ActivatedBy(k)
                /\ ByActivationKey(k) = {} => NotFoundNoChange
       /\ DeadActivationKeysStayDead]_vars

C1_Witness ==
    /\ result.op = "activate" /\ result.outcome = "NotFound" /\ result.key = 1
    /\ issued = 1
    /\ users["alice"].is_active

\* C2: with retry enabled, Activate(t) on an expired record answers Expired and
\* leaves the record, the user, the session untouched and emits no
\* activation_complete.
C2_ExpiredWithRetry ==
    [][\A k \in Keys :
          (settings.ACTIVATION_RETRY /\ ExpiredKey(k) /\ ActivateStep(k)) =>
             /\ result'.outcome = "Expired"
             /\ UNCHANGED <<users, signup, issued, session>>
             /\ ~Emits(trace', "activation_complete")]_vars

C2_Witness ==
    /\ result.op = "activate" /\ result.outcome = "Expired"
    /\ settings.ACTIVATION_RETRY
    /\ ExpiredKey(result.key)

C4_RetryReplacesToken ==
    [][/\ \A k \in Keys :
             (settings.ACTIVATION_RETRY /\ ExpiredKey(k) /\ RetryStep(k)) =>
                \E u \in ByActivationKey(k) :
                    /\ result'.outcome = "Success"
                    /\ signup'[u].activation_key \notin {k, NoToken}
                    /\ signup'[u].activation_key > issued
                    /\ (ByActivationKey(k) = {})'
       /\ DeadActivationKeysStayDead
       /\ \A k \in Keys :
             (ByActivationKey(k) = {} /\ ActivateStep(k)) => result'.outcome = "NotFound"]_vars

\* the old token is tried after the reissue
C4_Witness ==
    /\ result.op = "activate" /\ result.outcome = "NotFound" /\ result.key = 1
    /\ signup["alice"].activation_key = 2
    /\ ~users["bob"].exists

\* C5: ConfirmEmailChange(t) on a pending record sets the owner's email to the
\* proposed one and removes the record; on a token without a record it
\* answers NotFound and changes no user; a consumed token never gets a record
\* again, so a repeat never applies the change again.
C5_ConfirmOnce ==
    [][/\ \A k \in Keys :
             ConfirmStep(k) =>
                /\ ByConfirmationKey(k) # {} =>
                      \E u \in ByConfirmationKey(k) :
                          /\ result'.outcome = "Success"
                          /\ result'.user = u
                          /\ users'[u].email = signup[u].email_unconfirmed
                          /\ signup'[u].email_confirmation_key = NoToken
                          /\ signup'[u].email_unconfirmed = ""
                          /\ (ByConfirmationKey(k) = {})'
                /\ ByConfirmationKey(k) = {} => NotFoundNoChange
       /\ DeadConfirmationKeysStayDead]_vars

\* the token that changed alice's email is presented again
C5_Witness ==
    /\ result.op = "email_confirm" /\ result.outcome = "NotFound" /\ result.key = 2
    /\ issued = 2
    /\ users["alice"].email = "n@x"
    /\ ~users["bob"].exists

RequestEmailChange(u, e) ==
    /\ result'.op = "email_change" /\ result'.user = u
    /\ \E s \in BOOLEAN : email_change(u, e, TRUE, s) \/ EmailChangeView(u, e, TRUE, s)

\* C6: a successful RequestEmailChange replaces the pending record of the user:
\* the earlier token T1 matches no record from then on, so ConfirmEmailChange(T1)
\* answers NotFound and leaves every email alone, while ConfirmEmailChange with
\* the latest token sets the email to the address of the latest request.
C6_Supersede ==
    [][/\ \A u \in Usernames, e \in Emails :
             (result'.outcome = "Success" /\ RequestEmailChange(u, e)) =>
                LET T1 == signup[u].email_confirmation_key
                    T2 == signup'[u].email_confirmation_key
                IN  /\ T2 \notin {NoToken, T1}
                    /\ T2 > issued
                    /\ signup'[u].email_unconfirmed = e
                    /\ \A v \in Usernames :
                          T1 # NoToken => signup'[v].email_confirmation_key # T1
                    /\ users' = users
       /\ DeadConfirmationKeysStayDead
       /\ \A k \in Keys :
             ConfirmStep(k) =>
                IF ByConfirmationKey(k) = {}
                THEN result'.outcome = "NotFound" /\ users' = users
                ELSE \E u \in ByConfirmationKey(k) :
                        users'[u].email = signup[u].email_unconfirmed]_vars

\* the first of two tokens is presented after the second request
C6_Witness ==
    /\ result.op = "email_confirm" /\ result.outcome = "NotFound" /\ result.key = 2
    /\ signup["alice"].email_confirmation_key = 3
    /\ signup["alice"].email_unconfirmed = "b@x"
    /\ users["alice"].email = "a@x"
    /\ ~users["bob"].exists

\* the actor holds neither the target's identity nor the object permission
Lacks(perm, target) ==
    session.user # target /\ <<session.user, perm, target>> \notin elevated

\* the gate answered Forbidden before anything else ran, and nothing changed
ForbiddenNoChange(perm, target) ==
    /\ result'.outcome = "Forbidden"
    /\ trace' = <<<<"gate", perm, target>>>>
    /\ UNCHANGED <<users, signup, issued, session>>

\* a step of one of the gated views on the target
UserGatedStep(u) ==
    /\ result'.op \in {"email_change", "password_change"} /\ result'.user = u
    /\ \/ \E e \in Emails, post \in BOOLEAN, s \in BOOLEAN : email_change(u, e, post, s)
       \/ \E old \in Passwords, new \in Passwords, post \in BOOLEAN, s \in BOOLEAN :
             \/ password_change(u, old, new, post, s)
             \/ PasswordChangeView(u, old, new, post, s)
ProfileGatedStep(u) ==
    /\ result'.op = "profile_edit" /\ result'.user = u
    /\ \E v \in ProfileValues, post \in BOOLEAN, valid \in BOOLEAN, s \in BOOLEAN :
          ProfileEditView(u, v, post, valid, s)

C8_InactiveSignin ==
    [][result'.op = "signin" =>
       \A id \in Usernames \cup Emails, p \in Passwords :
          LET user == authenticate(id, p)
          IN  (/\ user # Anonymous /\ ~users[user].is_active
               /\ \E r \in BOOLEAN, n \in {"none", "safe", "unsafe"} :
                     SigninView(id, p, r, n)) =>
                 /\ session' = session
                 /\ result'.outcome = "AccountDisabled"
                 /\ result'.url = <<"userena_disabled", user>>
                 /\ ~Emits(trace', "account_signin")
                 /\ \A i \in 1..Len(trace') : trace'[i][1] \notin {"login", "set_expiry"}]_vars

C8_Witness ==
    /\ result.op = "signin" /\ result.outcome = "AccountDisabled"
    /\ ~users[result.user].is_active
    /\ session.user # result.user

Duplicates(r1, r2) ==
    /\ r1 # r2
    /\ reqs[r1].pc # "idle" /\ reqs[r2].pc # "idle"
    /\ reqs[r1].op = reqs[r2].op /\ reqs[r1].key = reqs[r2].key

C10_SameAnswer ==
    [][\A k \in Keys :
          /\ (ByActivationKey(k) = {} /\ ActivateStep(k)) =>
                /\ result' = Response("activate", "NotFound", Anonymous, k, NoUrl)
                /\ trace' = <<<<"read", "signup">>>>
                /\ UNCHANGED <<users, signup, issued, session>>
          /\ (ByConfirmationKey(k) = {} /\ ConfirmStep(k)) =>
                /\ result' = Response("email_confirm", "NotFound", Anonymous, k, NoUrl)
                /\ trace' = <<<<"read", "signup">>>>
                /\ UNCHANGED <<users, signup, issued, session>>]_vars

\* a consumed activation token is replayed while retry is enabled
C10_Witness ==
    /\ result.op = "activate" /\ result.outcome = "NotFound" /\ result.key = 1
    /\ settings.ACTIVATION_RETRY
    /\ issued = 1
    /\ users["alice"].is_active

\* the record of every user and every user, the token count and the session
\* are as they were
StoreUnchanged == UNCHANGED <<users, signup, issued, session>>

\* C11: with retry disabled, ActivateRetry(t) for any token t (with a record or
\* without, expired or not) mints no token, changes no record and no user, reads
\* nothing from the store and redirects to Activate(t).
C11_RetryDisabledFailsClosed ==
    [][\A k \in Keys :
          (~settings.ACTIVATION_RETRY /\ RetryStep(k)) =>
             /\ result'.outcome = "RedirectToActivate"
             /\ result'.url = <<"userena_activate", k>>
             /\ trace' = <<>>
             /\ StoreUnchanged]_vars

\* the retry of an expired token was turned away because retry is disabled
C11_Witness ==
    /\ result.op = "activate_retry" /\ result.outcome = "RedirectToActivate"
    /\ ~settings.ACTIVATION_RETRY
    /\ ExpiredKey(result.key)

\* C12: with retry enabled, ActivateRetry(t) for a token whose record is not
\* expired, or that has no record, redirects to Activate(t), mints no token and
\* leaves every record, its token and its issue time included, as it was.
C12_RetryNotExpired ==
    [][\A k \in Keys :
          (settings.ACTIVATION_RETRY /\ ~ExpiredKey(k) /\ RetryStep(k)) =>
             /\ result'.outcome = "RedirectToActivate"
             /\ result'.url = <<"userena_activate", k>>
             /\ \A i \in 1..Len(trace') : trace'[i][1] # "write"
             /\ StoreUnchanged]_vars

\* the retry of a token that is still fresh was turned away
C12_Witness ==
    /\ result.op = "activate_retry" /\ result.outcome = "RedirectToActivate"
    /\ settings.ACTIVATION_RETRY
    /\ FreshKey(result.key)

Unverified(u) == users[u].exists /\ ~users[u].is_active
\* the tokens that match the activation record of u
UnconsumedKeys(u) == {k \in Keys : u \in ByActivationKey(k)}
\* those of them that are within the activation window
LiveKeys(u) == {k \in UnconsumedKeys(u) : now - signup[u].issued_at <= ActivationWindow}

\* a token that was minted and matches no activation record never matches one
\* again and activates nobody; a token that has just activated its owner matches
\* no record afterwards
ConsumedNotReusable ==
    \A k \in Keys :
       /\ (k <= issued /\ ByActivationKey(k) = {}) =>
             /\ (ByActivationKey(k) = {})'
             /\ ActivateStep(k) =>
                   /\ result'.outcome # "Success"
                   /\ users' = users
                   /\ ~Emits(trace', "activation_complete")
       /\ (ActivateStep(k) /\ result'.outcome = "Success") => (ByActivationKey(k) = {})'

\* C13 as stated: every Unverified user has exactly one activation record that
\* is neither expired nor consumed, and a consumed token activates nobody.
C13_Original ==
    /\ [](\A u \in Usernames : Unverified(u) => Cardinality(LiveKeys(u)) = 1)
    /\ [][ConsumedNotReusable]_vars

\* C13, amended: every Unverified user has exactly one unconsumed activation
\* record; it is live while the activation window lasts and expired afterwards
\* (the user then has no live record until ActivateRetry replaces the token); no
\* token matches the records of two users; a consumed token activates nobody.
C13_OneUnconsumedRecord ==
    /\ [](/\ \A u \in Usernames :
                Unverified(u) =>
                   /\ Cardinality(UnconsumedKeys(u)) = 1
                   /\ Cardinality(LiveKeys(u)) =
                         IF now - signup[u].issued_at > ActivationWindow THEN 0 ELSE 1
          /\ \A k \in Keys : Cardinality(ByActivationKey(k)) <= 1)
    /\ [][ConsumedNotReusable]_vars

\* bob's consumed token is replayed while alice, unverified, holds an expired
\* record
C13_Witness ==
    /\ Unverified("alice") /\ LiveKeys("alice") = {} /\ UnconsumedKeys("alice") # {}
    /\ users["bob"].is_active
    /\ result.op = "activate" /\ result.outcome = "NotFound"
    /\ result.key # NoToken /\ result.key <= issued

\* the user has a pending email change
Pending(u) == users[u].exists /\ signup[u].email_confirmation_key # NoToken

\* the tokens that match the pending email change of u
PendingKeys(u) == {k \in Keys : u \in ByConfirmationKey(k)}

\* a step that removes the pending change of u without replacing it is a
\* successful confirmation that wrote the proposed address to u
ClearedOnlyByConfirm ==
    \A u \in Usernames :
       (Pending(u) /\ ~Pending(u)') =>
          /\ result'.op = "email_confirm" /\ result'.outcome = "Success"
          /\ result'.user = u
          /\ result'.key = signup[u].email_confirmation_key
          /\ users'[u].email = signup[u].email_unconfirmed
          /\ Emits(trace', "confirmation_complete")

\* C14: every user has at most one pending email change and a token matches
\* the pending change of at most one user; while the pending change exists the
\* user's email is not the proposed address; a record without a token holds no
\* proposed address; the pending change is removed only by the successful
\* confirmation that applies it, in the same step.
C14_PendingEmailChange ==
    /\ [](/\ \A u \in Usernames :
                /\ Cardinality(PendingKeys(u)) <= 1
                /\ Pending(u) => /\ signup[u].email_unconfirmed # ""
                                 /\ signup[u].email_unconfirmed # users[u].email
                /\ (users[u].exists /\ ~Pending(u)) => signup[u].email_unconfirmed = ""
          /\ \A k \in Keys : Cardinality(ByConfirmationKey(k)) <= 1)
    /\ [][ClearedOnlyByConfirm]_vars

\* alice's change to n@x was confirmed: the address is applied and the record gone
C14_Witness ==
    /\ result.op = "email_confirm" /\ result.outcome = "Success" /\ result.user = "alice"
    /\ users["alice"].email = "n@x"
    /\ ~Pending("alice")

\* C15: a successful RequestEmailChange changes no user, and the email of an
\* existing user changes only in the step of a successful ConfirmEmailChange
\* with the token of that user's pending change, to the proposed address; so
\* from a request until that confirmation the email is the one held before,
\* whatever requests, failed confirmations or other operations come between.
C15_EmailAuthoritativeUntilConfirmed ==
    [][/\ \A u \in Usernames, e \in Emails :
             (result'.outcome = "Success" /\ RequestEmailChange(u, e)) =>
                /\ users' = users
                /\ signup'[u].email_unconfirmed = e
       /\ \A u \in Usernames :
             (users[u].exists /\ users'[u].email # users[u].email) =>
                /\ result'.op = "email_confirm" /\ result'.outcome = "Success"
                /\ result'.user = u
                /\ result'.key # NoToken
                /\ result'.key = signup[u].email_confirmation_key
                /\ users'[u].email = signup[u].email_unconfirmed]_vars

\* after two requests and a failed confirmation with the superseded token alice
\* still has the address she signed up with
C15_Witness ==
    /\ result.op = "email_confirm" /\ result.outcome = "NotFound" /\ result.key = 2
    /\ signup["alice"].email_confirmation_key = 3
    /\ signup["alice"].email_unconfirmed = "n@x"
    /\ users["alice"].email = "a@x"

CountEmits(t, name) ==
    Cardinality({i \in 1..Len(t) : t[i][1] = "emit" /\ t[i][2] = name})

\* a successful Signup step for the username u
SignupStep(u) ==
    /\ result'.op = "signup" /\ result'.outcome = "Success" /\ result'.user = u
    /\ \E i \in SignupInputs, p \in Passwords : i[1] = u /\ SignupView(i[1], i[2], p)

\* the step created the user u with its profile and one activation record with
\* a token never minted before, and sent signup_complete once, for u
SignupCreates(u) ==
    /\ ~users[u].exists /\ users'[u].exists
    /\ users'[u].profile # ""
    /\ \A v \in Usernames \ {u} : users'[v] = users[v] /\ signup'[v] = signup[v]
    /\ signup'[u].activation_key > issued
    /\ signup'[u].activation_key = issued'
    /\ \A v \in Usernames \ {u} :
          signup'[u].activation_key \notin
             {signup'[v].activation_key, signup'[v].email_confirmation_key}
    /\ CountEmits(trace', "signup_complete") = 1
    /\ \A i \in 1..Len(trace') :
          trace'[i][1] = "emit" => trace'[i] = <<"emit", "signup_complete", u>>

\* C16 as stated: the new user is Active with a session when
\* sign-in-after-signup is configured and activation is not required, and
\* Unverified without a session in every other configuration.
C16_Original ==
    [][\A u \in Usernames :
          SignupStep(u) =>
             /\ SignupCreates(u)
             /\ IF settings.SIGNIN_AFTER_SIGNUP /\ ~settings.ACTIVATION_REQUIRED
                THEN users'[u].is_active /\ session'.user = u
                ELSE ~users'[u].is_active /\ session'.user = Anonymous]_vars

\* C16, amended: the new user is Unverified when activation is required and
\* Active when it is not; a session for the new user is established in the same
\* call when, and only when, sign-in-after-signup is configured and activation
\* is not required, and otherwise no session is left.
C16_SignupByConfiguration ==
    [][\A u \in Usernames :
          SignupStep(u) =>
             /\ SignupCreates(u)
             /\ users'[u].is_active <=> ~settings.ACTIVATION_REQUIRED
             /\ IF settings.SIGNIN_AFTER_SIGNUP /\ ~settings.ACTIVATION_REQUIRED
                THEN /\ session'.user = u
                     /\ \E i \in 1..Len(trace') : trace'[i] = <<"login", u>>
                ELSE /\ session'.user = Anonymous
                     /\ \A i \in 1..Len(trace') : trace'[i][1] # "login"]_vars

\* bob signed up over alice's session and was signed in at once
C16_Witness ==
    /\ result.op = "signup" /\ result.outcome = "Success" /\ result.user = "bob"
    /\ settings.SIGNIN_AFTER_SIGNUP /\ ~settings.ACTIVATION_REQUIRED
    /\ users["alice"].exists
    /\ users["bob"].is_active
    /\ session.user = "bob"
    /\ \E i \in 1..Len(trace) : trace[i] = <<"logout", "alice">>

\* a SignIn step with the given form data
SigninStep(id, p, r) ==
    /\ result'.op = "signin"
    /\ \E n \in {"none", "safe", "unsafe"} : SigninView(id, p, r, n)

\* C17: a successful SignIn sets the session expiry to the remember-me days in
\* seconds when remember_me is set and to 0 when it is not; the expiry of a
\* session is never any other value, and it is set by a successful SignIn only.
C17_ExpiryForRememberMe ==
    /\ [](session.expiry \in {ExpiryUnset, 0, REMEMBER_ME_DAYS * 24 * 60 * 60})
    /\ [][/\ (result'.op = "signin" /\ result'.outcome = "Success") =>
                \A id \in Usernames \cup Emails, p \in Passwords, r \in BOOLEAN :
                   SigninStep(id, p, r) =>
                      /\ session'.user = result'.user
                      /\ session'.expiry =
                            IF r THEN REMEMBER_ME_DAYS * 24 * 60 * 60 ELSE 0
                      /\ CountEmits(trace', "account_signin") = 1
          /\ (session'.expiry # session.expiry /\ session'.expiry # ExpiryUnset) =>
                result'.op = "signin" /\ result'.outcome = "Success"]_vars

\* alice signed in with remember_me over a session that ended with the browser
C17_Witness ==
    /\ result.op = "signin" /\ result.outcome = "Success"
    /\ session.expiry = REMEMBER_ME_DAYS * 24 * 60 * 60
    /\ \E i \in 1..Len(trace) : trace[i] = <<"set_expiry", "remember">>

\* C18: after a successful SignIn of an active user the redirect goes to the
\* requested next URL when one is present and safe, and otherwise to the
\* profile page of the user who has just been signed in, never to the page of
\* another user.
C18_RedirectAfterSignin ==
    [][(result'.op = "signin" /\ result'.outcome = "Success") =>
          \A id \in Usernames \cup Emails, p \in Passwords,
             n \in {"none", "safe", "unsafe"} :
             (\E r \in BOOLEAN : SigninView(id, p, r, n)) =>
                LET user == authenticate(id, p)
                IN  /\ user # Anonymous /\ users[user].is_active
                    /\ session'.user = user
                    /\ result'.url = IF n = "safe" THEN <<"next">>
                                     ELSE <<"userena_profile_detail", user>>
                    /\ \A v \in Usernames \ {user} :
                          result'.url # <<"userena_profile_detail", v>>]_vars

\* bob signed in over alice's session without a next URL and is sent to his
\* own profile page
C18_Witness ==
    /\ result.op = "signin" /\ result.outcome = "Success"
    /\ result.url = <<"userena_profile_detail", "bob">>
    /\ session.user = "bob"
    /\ users["alice"].is_active
    /\ \E i \in 1..Len(trace) : trace[i] = <<"authenticate", "bob">>

\* the position of the first effect e in the trace t, 0 when it is absent
IndexOf(t, e) ==
    IF \E i \in 1..Len(t) : t[i] = e
    THEN CHOOSE i \in 1..Len(t) : t[i] = e /\ \A j \in 1..(i - 1) : t[j] # e
    ELSE 0

\* C19: SignOut by an authenticated actor succeeds, sends account_signout for
\* that actor exactly once and before the session is flushed, and leaves no
\* session.
C19_SignoutEmitsThenInvalidates ==
    [][(result'.op = "signout" /\ session.user # Anonymous /\ signout) =>
          LET actor == session.user
              emitted == IndexOf(trace', <<"emit", "account_signout", actor>>)
              flushed == IndexOf(trace', <<"logout", actor>>)
          IN  /\ result'.outcome = "Success"
              /\ result'.user = actor
              /\ CountEmits(trace', "account_signout") = 1
              /\ emitted > 0 /\ flushed > 0
              /\ emitted < flushed
              /\ session' = NoSession
              /\ UNCHANGED <<users, signup, issued>>]_vars

\* alice, signed in for a month, signed out
C19_Witness ==
    /\ result.op = "signout" /\ result.outcome = "Success" /\ result.user = "alice"
    /\ session = NoSession
    /\ users["alice"].is_active

\* C20: a ChangePassword step (password_change or PasswordChangeView; the
\* response names the view and the target) that applies the change saves the
\* new credential and then sends password_complete for the target exactly
\* once, under the custom success URL and under the default one alike; a step
\* the gate denies, and a step that does not apply the change, sends nothing
\* and changes no user.
C20_PasswordChangedOnce ==
    [][result'.op = "password_change" =>
          LET u == result'.user
              saved == IndexOf(trace', <<"write", "user", u>>)
              sent == IndexOf(trace', <<"emit", "password_complete", u>>)
          IN  IF result'.outcome = "Success"
              THEN /\ result'.url \in {<<"success_url">>,
                                        <<"userena_password_change_complete", u>>}
                   /\ CountEmits(trace', "password_complete") = 1
                   /\ saved > 0 /\ saved < sent
                   /\ \A v \in Usernames \ {u} : users'[v] = users[v]
              ELSE /\ result'.outcome \in {"Forbidden", "Http404", "Form"}
                   /\ \A i \in 1..Len(trace') : trace'[i][1] # "emit"
                   /\ users' = users]_vars

\* bob, who holds change_user on alice, changed her password and was sent to
\* the default page
C20_Witness ==
    /\ result.op = "password_change" /\ result.outcome = "Success"
    /\ result.user = "alice"
    /\ result.url = <<"userena_password_change_complete", "alice">>
    /\ session.user = "bob"
    /\ users["alice"].password = "pw2"
    /\ CountEmits(trace, "password_complete") = 1

\* C21: a successful EditProfile step (the response names the view and the
\* target; its URL is the success URL when one was supplied and the target's
\* profile page otherwise) saves the profile in both cases and sends
\* profile_change, once, for the target and after the save, exactly when a
\* success URL was supplied; a step the gate denies and a step with an invalid
\* or unsubmitted form sends nothing and saves nothing.
C21_ProfileChangedOnlyWithSuccessUrl ==
    [][result'.op = "profile_edit" =>
          LET u == result'.user
              saved == IndexOf(trace', <<"write", "profile", u>>)
              sent == IndexOf(trace', <<"emit", "profile_change", u>>)
          IN  IF result'.outcome = "Success"
              THEN /\ result'.url \in {<<"success_url">>, <<"userena_profile_detail", u>>}
                   /\ saved > 0
                   /\ \A w \in Usernames \ {u} : users'[w] = users[w]
                   /\ Emits(trace', "profile_change") <=> result'.url = <<"success_url">>
                   /\ result'.url = <<"success_url">> =>
                         /\ CountEmits(trace', "profile_change") = 1
                         /\ saved < sent
              ELSE /\ result'.outcome \in {"Forbidden", "Http404", "Form"}
                   /\ \A i \in 1..Len(trace') : trace'[i][1] # "emit"
                   /\ users' = users]_vars

\* alice changed her profile without a success URL: saved, and no signal sent
C21_Witness ==
    /\ result.op = "profile_edit" /\ result.outcome = "Success"
    /\ result.user = "alice" /\ session.user = "alice"
    /\ result.url = <<"userena_profile_detail", "alice">>
    /\ users["alice"].profile = "bio1"
    /\ ~Emits(trace, "profile_change")

\* a receiver raised during the step
ReceiverRaised(t) == \E i \in 1..Len(t) : t[i][1] = "raise"

\* the mutation of a step whose receiver raised is in the store after the step
StoreMutationCommitted ==
    /\ \A i \in SignupInputs :
          SignupViewRaising(i[1], i[2], "pw") =>
             /\ users'[i[1]].exists /\ users'[i[1]].email = i[2]
             /\ signup'[i[1]].activation_key = issued'
    /\ \A u \in Usernames, new \in Passwords :
          PasswordChangeViewRaising(u, "pw", new) => users'[u].password = new
    /\ \A u \in Usernames, v \in ProfileValues :
          ProfileEditViewRaising(u, v) => users'[u].profile = v
    /\ \A u \in Usernames, e \in Emails :
          EmailChangeViewRaising(u, e) =>
             /\ signup'[u].email_unconfirmed = e
             /\ signup'[u].email_confirmation_key = issued'

\* the store mutations survive a raising receiver
StoreMutationSurvives == [][ReceiverRaised(trace') => StoreMutationCommitted]_vars

\* C22 (as stated): whenever a receiver of the signal of Signup,
\* ChangePassword, EditProfile, RequestEmailChange or SignIn raises, the
\* mutation of the step stays and the step still ends in its success outcome.
C22_Original ==
    [][ReceiverRaised(trace') =>
          /\ StoreMutationCommitted
          /\ \A u \in Usernames, r \in BOOLEAN :
                SigninViewRaising(u, "pw", r) => session'.user = u
          /\ result'.outcome = "Success"]_vars

\* alice's password was changed and the request ended in the exception of the
\* receiver
C22_Witness ==
    /\ result = Raised("password_change", "alice")
    /\ ReceiverRaised(trace)
    /\ users["alice"].password = "pw2"

\* C23: a profile-detail step on an existing profile answers with the profile
\* exactly when can_view_profile holds for the viewer of the request: the
\* owner and a staff viewer always, every viewer (the anonymous one included)
\* when the profile is public; every other viewer gets Forbidden and no
\* profile is rendered for them.  What is rendered is the stored profile of
\* the target, and the step changes nothing in the store or the session.
C23_ViewByCanViewProfile ==
    [][result'.op = "profile_detail" =>
          LET u == result'.user
              viewer == session.user
              rendered == \E i \in 1..Len(trace') : trace'[i][1] = "render"
          IN  /\ UNCHANGED <<users, signup, issued, now, settings, elevated, session>>
              /\ users[u].exists =>
                    /\ result'.outcome \in {"Success", "Forbidden"}
                    /\ result'.outcome = "Success" <=> can_view_profile(u, viewer)
                    /\ result'.outcome = "Success" <=>
                          \/ users[u].privacy = "public"
                          \/ viewer = u
                          \/ (viewer # Anonymous /\ users[viewer].is_staff)
                    /\ rendered <=> result'.outcome = "Success"
                    /\ rendered =>
                          trace'[Len(trace')] = <<"render", "profile", u, users[u].profile>>
              /\ ~users[u].exists => result'.outcome = "Http404" /\ ~rendered]_vars

\* bob, signed in and not staff, was refused alice's private profile
C23_Witness ==
    /\ result = Response("profile_detail", "Forbidden", "alice", NoToken, NoUrl)
    /\ session.user = "bob"
    /\ users["alice"].privacy = "private"
    /\ ~users["bob"].is_staff

\* the anonymous viewer was shown alice's public profile
C23_WitnessPublic ==
    /\ result = Response("profile_detail", "Success", "alice", NoToken, NoUrl)
    /\ session.user = Anonymous
    /\ users["alice"].privacy = "public"

\* the outcomes each token operation is specified to end in
TaggedOutcomes(op) ==
    CASE op = "activate" -> {"Success", "NotFound", "Expired"}
      [] op = "activate_retry" -> {"Success", "RedirectToActivate"}
      [] op = "email_confirm" -> {"Success", "NotFound"}

\* C24: every Activate, ActivateRetry and ConfirmEmailChange step, whatever
\* token it is given (live, consumed, superseded or never issued), ends in one
\* of the tagged outcomes of its operation.  A token without a record gives
\* NotFound for Activate and ConfirmEmailChange and the redirect to Activate
\* with the same token for ActivateRetry, and leaves the store alone.
C24_MissingRecordIsTagged ==
    [][result'.op \in {"activate", "activate_retry", "email_confirm"} =>
          LET k == result'.key
          IN  /\ result'.outcome \in TaggedOutcomes(result'.op)
              /\ (result'.op = "activate" /\ ByActivationKey(k) = {}) =>
                    result'.outcome = "NotFound" /\ StoreUnchanged
              /\ (result'.op = "activate_retry" /\ ByActivationKey(k) = {}) =>
                    result' = RedirectToActivate(k) /\ StoreUnchanged
              /\ (result'.op = "email_confirm" /\ ByConfirmationKey(k) = {}) =>
                    result'.outcome = "NotFound" /\ StoreUnchanged]_vars

\* with retry enabled, Activate was given a token that was never issued and
\* answered NotFound
C24_Witness ==
    /\ result.op = "activate"
    /\ result.outcome = "NotFound"
    /\ result.key > issued
    /\ settings.ACTIVATION_RETRY
    /\ trace = <<<<"read", "signup">>>>

\* C25: no step of any operation takes a user from active to inactive, and no
\* step removes a user: an Active user stays Active.
C25_ActiveStaysActive ==
    [][\A u \in Usernames :
          (users[u].exists /\ users[u].is_active) =>
             (users'[u].exists /\ users'[u].is_active)]_vars

\* alice is Active and, since she became so, changed her password and signed in
C25_Witness ==
    /\ users["alice"].is_active
    /\ users["alice"].password = "pw2"
    /\ result.op = "signin"
    /\ result.outcome = "Success"
    /\ session.user = "alice"

\* the EmailChanged events of a trace: the signals that carry prev_email and
\* new_email, as <<user, prev_email, new_email>>
EmailChangedEvents(t) ==
    {<<t[i][3], t[i][4], t[i][5]>> :
        i \in {j \in 1..Len(t) : /\ t[j][1] = "emit"
                                 /\ t[j][2] \in {"email_change", "confirmation_complete"}}}

\* a successful confirmation sends one event with the address before and the
\* proposed, now current, address
ConfirmSendsOneEvent ==
    [][(result'.op = "email_confirm" /\ result'.outcome = "Success") =>
          LET u == result'.user
          IN  /\ CountEmits(trace', "confirmation_complete") = 1
              /\ EmailChangedEvents(trace') =
                    {<<u, users[u].email, signup[u].email_unconfirmed>>}
              /\ users'[u].email = signup[u].email_unconfirmed]_vars

\* C26 (as stated): a successful ConfirmEmailChange sends exactly one
\* EmailChanged event with the address before and the proposed address, and
\* every EmailChanged event any step sends has new_email equal to the address
\* that was requested: the proposed address of the pending change the step
\* confirms or files.
C26_Original ==
    [][result'.op \in {"email_confirm", "email_change"} =>
          LET u == result'.user
              requested == IF result'.op = "email_confirm"
                           THEN signup[u].email_unconfirmed
                           ELSE signup'[u].email_unconfirmed
          IN  /\ (result'.op = "email_confirm" /\ result'.outcome = "Success") =>
                    /\ CountEmits(trace', "confirmation_complete") = 1
                    /\ EmailChangedEvents(trace') = {<<u, users[u].email, requested>>}
              /\ \A ev \in EmailChangedEvents(trace') : ev[3] = requested]_vars

\* alice asked for n@x with a success URL and the event sent for it names her
\* old address a@x as the new one
C26_Witness ==
    /\ result.op = "email_change"
    /\ result.outcome = "Success"
    /\ result.user = "alice"
    /\ signup["alice"].email_unconfirmed = "n@x"
    /\ EmailChangedEvents(trace) = {<<"alice", "a@x", "a@x">>}

\* what a successful ActivateRetry step does besides the user's active flag:
\* the token was expired and retry enabled; the one record of the token gets a
\* new token, never issued before, and the current time as its issue time, so
\* the new token is not expired; its pending email change, every other record,
\* every user and the session are as before.
ReissueChangesOnlyTheKey(k, u) ==
    /\ settings.ACTIVATION_RETRY
    /\ ByActivationKey(k) = {u}
    /\ ExpiredKey(k)
    /\ signup'[u].activation_key = issued' /\ issued' = issued + 1
    /\ signup'[u].activation_key # k
    /\ signup'[u].issued_at = now
    /\ ~is_expired(signup'[u].issued_at)
    /\ {w \in Usernames : signup'[w].activation_key = issued'} = {u}
    /\ signup'[u].email_unconfirmed = signup[u].email_unconfirmed
    /\ signup'[u].email_confirmation_key = signup[u].email_confirmation_key
    /\ \A w \in Usernames \ {u} : signup'[w] = signup[w]
    /\ users' = users
    /\ session' = session

\* C27 (as stated): a successful ActivateRetry changes only the token and the
\* issue time of the one record, and the user's active flag stays false.
C27_Original ==
    [][(result'.op = "activate_retry" /\ result'.outcome = "Success") =>
          /\ ReissueChangesOnlyTheKey(result'.key, result'.user)
          /\ ~users'[result'.user].is_active]_vars

\* C27: a successful ActivateRetry changes only the token and the issue time
\* of the one record: same user, no session established, no other record and
\* no user changed, the new token not expired when issued.  The user's active
\* flag is as before: false whenever activation is required, and true for a
\* user who was created active because activation is not required.
C27_ReissueKeepsActiveFlag ==
    [][(result'.op = "activate_retry" /\ result'.outcome = "Success") =>
          LET u == result'.user
          IN  /\ ReissueChangesOnlyTheKey(result'.key, u)
              /\ users'[u].is_active = users[u].is_active
              /\ settings.ACTIVATION_REQUIRED => ~users'[u].is_active
              /\ users[u].is_active => ~settings.ACTIVATION_REQUIRED]_vars

\* the expired token of alice, not yet activated, was replaced while bob was
\* signed in
C27_Witness ==
    /\ result.op = "activate_retry"
    /\ result.outcome = "Success"
    /\ result.user = "alice"
    /\ ~users["alice"].is_active
    /\ signup["alice"].activation_key = issued
    /\ signup["alice"].issued_at = now
    /\ session.user = "bob"

\* C28: a successful Activate step leaves a session of the activated user, the
\* owner of the token, and of nobody else, whoever was signed in before; it
\* redirects to the success URL with that user's name substituted when one is
\* given and to that user's profile page otherwise.  An Activate step that ends
\* in NotFound or Expired leaves the session as it was and redirects nowhere.
C28_ActivateSignsIn ==
    [][result'.op = "activate" =>
          LET k == result'.key
              u == result'.user
          IN  IF result'.outcome = "Success"
              THEN /\ ByActivationKey(k) = {u}
                   /\ users'[u].is_active
                   /\ session'.user = u
                   /\ IndexOf(trace', <<"login", u>>) > 0
                   /\ \A w \in Usernames \ {u} : IndexOf(trace', <<"login", w>>) = 0
                   /\ result'.url \in {<<"success_url", u>>, <<"userena_profile_detail", u>>}
                   /\ \A s \in BOOLEAN :
                         activate(k, s) =>
                            result'.url = IF s THEN <<"success_url", u>>
                                          ELSE <<"userena_profile_detail", u>>
              ELSE /\ result'.outcome \in {"NotFound", "Expired"}
                   /\ session' = session
                   /\ result'.url = NoUrl
                   /\ \A i \in 1..Len(trace') : trace'[i][1] # "login"]_vars

\* alice's token was activated with a success URL after bob, active, had
\* signed in and asked for an email change; the session is alice's
C28_Witness ==
    /\ result.op = "activate"
    /\ result.outcome = "Success"
    /\ result.user = "alice"
    /\ result.url = <<"success_url", "alice">>
    /\ session.user = "alice"
    /\ users["bob"].is_active
    /\ signup["bob"].email_unconfirmed = "n@x"

\* every user a step logs in, and the user of the session after a step that
\* changed the session's user, is active after the step
LoginOnlyForActive ==
    /\ \A u \in Usernames :
          IndexOf(trace', <<"login", u>>) > 0 => users'[u].exists /\ users'[u].is_active
    /\ (session'.user # session.user /\ session'.user # Anonymous) =>
          /\ users'[session'.user].is_active
          /\ IndexOf(trace', <<"login", session'.user>>) > 0
          /\ result'.op \in {"signin", "activate", "signup"}

\* C29: in every reachable state the session belongs to nobody or to an
\* active user, and every step that establishes a session (SignIn, Activate,
\* Signup with immediate sign-in) establishes it for a user who is active when
\* the step ends: no session is ever created for an Unverified or Disabled
\* user.
C29_SessionOnlyForActive ==
    /\ [](session.user # Anonymous =>
             users[session.user].exists /\ users[session.user].is_active)
    /\ [][LoginOnlyForActive]_vars

\* signup signed alice in at once: activation is not required and sign-in
\* after signup is configured
C29_Witness ==
    /\ result.op = "signup"
    /\ result.outcome = "Success"
    /\ session.user = "alice"
    /\ users["alice"].is_active
    /\ settings.SIGNIN_AFTER_SIGNUP /\ ~settings.ACTIVATION_REQUIRED

\* ------------------------------------------------- liveness of activation
\* The way of one user from signup to activation with retry enabled and the
\* clock moving.  The holder of the user's newest token follows the activation
\* link while the token is fresh and asks for a new token once it has expired.
ActivateNewest(u) ==
    /\ Unverified(u)
    /\ FreshKey(signup[u].activation_key)
    /\ activate(signup[u].activation_key, FALSE)

RetryNewest(u) ==
    /\ Unverified(u)
    /\ ExpiredKey(signup[u].activation_key)
    /\ activate_retry(signup[u].activation_key)

NextLive ==
    \/ Tick
    \/ SignupView("alice", "a@x", "pw")
    \/ \E k \in Keys, s \in BOOLEAN : activate(k, s)
    \/ \E k \in Keys : activate_retry(k)
    \/ \E p \in Passwords, r \in BOOLEAN : SigninView("alice", p, r, "none")
    \/ signout

\* The fairness is the one the claim assumes of the token holder: a fresh
\* newest token is used before it expires, an expired one is exchanged.
SpecLive ==
    /\ InitCore
    /\ [][NextLive]_vars
    /\ \A u \in Usernames : SF_vars(ActivateNewest(u)) /\ WF_vars(RetryNewest(u))

\* an Unverified user has an activation record whose newest token can be used:
\* fresh, Activate is open to its holder; expired, ActivateRetry is
NewestTokenUsable ==
    \A u \in Usernames :
       Unverified(u) =>
          /\ ByActivationKey(signup[u].activation_key) = {u}
          /\ FreshKey(signup[u].activation_key) => ENABLED ActivateNewest(u)
          /\ ExpiredKey(signup[u].activation_key) => ENABLED RetryNewest(u)

\* Activate with the fresh newest token makes the user Active; ActivateRetry
\* with the expired newest token gives the user a fresh newest token
NewestTokenLeadsOn ==
    \A u \in Usernames :
       /\ ActivateNewest(u) => users'[u].is_active
       /\ RetryNewest(u) =>
             /\ Unverified(u)'
             /\ signup'[u].activation_key # signup[u].activation_key
             /\ now - signup'[u].issued_at <= ActivationWindow

\* C30: with retry enabled an Unverified user is never stuck.  In every
\* reachable state the user's newest token is usable (by Activate while fresh,
\* by ActivateRetry once expired), Activate with it makes the user Active and
\* ActivateRetry replaces it by a fresh token; and when the holder uses the
\* newest token before it expires, every Unverified user eventually is Active.
C30_UnverifiedReachesActive ==
    /\ []NewestTokenUsable
    /\ [][NewestTokenLeadsOn]_vars
    /\ \A u \in Usernames : Unverified(u) ~> users[u].is_active

\* alice became Active with the token reissued after her first one had expired
C30_Witness ==
    /\ users["alice"].is_active
    /\ result.op = "activate"
    /\ result.outcome = "Success"
    /\ result.user = "alice"
    /\ result.key = 2
    /\ issued = 2
    /\ now = MaxTime

\* C31: with signup disabled every Signup step, whatever its form holds (a
\* free or a taken username or address), answers Forbidden before anything is
\* read or written: no user, profile or activation record is created, no token
\* is minted, no signal is sent and the session of the requester is as before.
C31_DisabledSignupForbidden ==
    [][(result'.op = "signup" /\ settings.DISABLE_SIGNUP) =>
          /\ result' = Response("signup", "Forbidden", Anonymous, NoToken, NoUrl)
          /\ trace' = <<>>
          /\ users' = users
          /\ signup' = signup
          /\ issued' = issued
          /\ session' = session]_vars

\* alice, signed in with a remembered session, asked for a signup on a site
\* where signup is disabled; she is still signed in and bob does not exist
C31_Witness ==
    /\ settings.DISABLE_SIGNUP
    /\ result = Response("signup", "Forbidden", Anonymous, NoToken, NoUrl)
    /\ session = [user |-> "alice", expiry |-> REMEMBER_ME_DAYS * 86400]
    /\ ~users["bob"].exists

\* C32: after a successful Signup step the session is the new user's when
\* immediate sign-in is configured (sign-in after signup, activation not
\* required) and nobody's otherwise.  A requester who was signed in is logged
\* out before any login of the new user: the session is never theirs after the
\* step and nothing of it (its expiry) is carried over.
C32_SignupEndsOldSession ==
    [][(result'.op = "signup" /\ result'.outcome = "Success") =>
          LET u == result'.user
              out == IndexOf(trace', <<"logout", session.user>>)
              in == IndexOf(trace', <<"login", u>>)
          IN  /\ ~users[u].exists /\ users'[u].exists
              /\ session'.user = IF SigninAfterSignup THEN u ELSE Anonymous
              /\ in > 0 <=> SigninAfterSignup
              /\ session.user # Anonymous =>
                    /\ session'.user # session.user
                    /\ session'.expiry = ExpiryUnset
                    /\ out > 0
                    /\ in > 0 => out < in
              /\ session.user = Anonymous =>
                    \A i \in 1..Len(trace') : trace'[i][1] # "logout"]_vars

\* bob was signed up from alice's session on a site without immediate
\* sign-in: alice was logged out and nobody is signed in
C32_Witness ==
    /\ result.op = "signup"
    /\ result.outcome = "Success"
    /\ result.user = "bob"
    /\ IndexOf(trace, <<"logout", "alice">>) > 0
    /\ ~SigninAfterSignup
    /\ session = NoSession

\* bob was signed up from alice's session and signed in at once
C32_WitnessImmediate ==
    /\ result.op = "signup"
    /\ result.outcome = "Success"
    /\ result.user = "bob"
    /\ IndexOf(trace, <<"logout", "alice">>) > 0
    /\ session.user = "bob"

\* C33: a disabled-account step renders exactly for an existing user who is
\* not active and answers NotFound for an unknown username and for an active
\* user; it changes nothing.  A SignIn step that answers AccountDisabled
\* redirects to the disabled-account view of the user it authenticated, who
\* exists and is not active; so the view renders when the redirect is followed
\* at once, and at any later time at which the user is still not active.
C33_DisabledAccountView ==
    [][/\ result'.op = "disabled_account" =>
             LET u == result'.user
                 rendered == IndexOf(trace', <<"render", "disabled", u>>) > 0
             IN  /\ result'.outcome \in {"Success", "Http404"}
                 /\ result'.outcome = "Success" <=> (users[u].exists /\ ~users[u].is_active)
                 /\ rendered <=> result'.outcome = "Success"
                 /\ UNCHANGED <<users, signup, issued, now, settings, elevated, session>>
                 /\ (/\ result.op = "signin" /\ result.outcome = "AccountDisabled"
                     /\ result.url = <<"userena_disabled", u>>) =>
                       result'.outcome = "Success"
       /\ (result'.op = "signin" /\ result'.outcome = "AccountDisabled") =>
             LET u == result'.user
             IN  /\ result'.url = <<"userena_disabled", u>>
                 /\ users'[u].exists /\ ~users'[u].is_active]_vars

\* the page was rendered for alice, who signed up and is not activated, while
\* bob is
C33_Witness ==
    /\ result = Response("disabled_account", "Success", "alice", NoToken, NoUrl)
    /\ trace[Len(trace)] = <<"render", "disabled", "alice">>
    /\ users["alice"].exists /\ ~users["alice"].is_active
    /\ users["bob"].is_active

\* the page answered NotFound for alice once she was activated
C33_WitnessActive ==
    /\ result = Response("disabled_account", "Http404", "alice", NoToken, NoUrl)
    /\ users["alice"].is_active
====
